---------------------------- MODULE Spec2Model ----------------------------
(***************************************************************************)
(* PolyDoc AI: the document processor (src/src/core/document_processor.py) *)
(* and the AI model manager (src/src/models/ai_models.py).                 *)
(*                                                                         *)
(* A text is a sequence of Unicode code points (integers).  Confidences    *)
(* and scores are in hundredths (0.5 is 50, 1.0 is 100).  Every action is  *)
(* one whole call of a method: `call` holds its arguments together with    *)
(* the behaviour of the libraries it used, `ret` what it gave back to the  *)
(* caller, `trace` the extractors and library calls it ran, in order;      *)
(* `proc` is the DocumentProcessor and `mgr` the AIModelManager.  For the  *)
(* requests in flight on one asyncio event loop, `tasks` holds each        *)
(* request's coroutine and `running` the request the loop thread runs.     *)
(***************************************************************************)
EXTENDS Integers, Sequences, FiniteSets, TLC

VARIABLES call, ret, trace, proc, mgr, running, tasks

vars == <<call, ret, trace, proc, mgr, running, tasks>>

(***************************************************************************)
(* Bounds of the model.                                                    *)
(***************************************************************************)
\* longest text of arbitrary characters given to the script classifier
MaxTextLen == 5
\* longest text made of one run per script given to the script classifier
MaxBlockLen == 10
\* most units of a document: pages of a PDF; paragraphs and tables of a DOCX;
\* slides and shapes of a PPTX; text regions of an image
MaxUnits == 3
\* the texts given to summarize_text and answer_question are up to one
\* character longer than MaxChunks chunks of 1000 characters
MaxChunks == 2

\* the longest text given to detect_language
MaxDetectLen == 2

\* the longest short text given to extract_key_phrases
MaxPhraseLen == 4

\* the most features the vectorizer finds
MaxFeatures == 2

\* the requests in flight on the event loop
MaxRequests == 2
MaxElements == 2
LongDocxParagraphs == 35

(***************************************************************************)
(* Generic helpers.                                                        *)
(***************************************************************************)
Min(a, b) == IF a < b THEN a ELSE b

Max(a, b) == IF a > b THEN a ELSE b

SeqsUpTo(S, n) == UNION {[1..k -> S] : k \in 0..n}

Rep(c, n) == [i \in 1..n |-> c]

\* Python's s[a:b] for 0 <= a, 0 <= b
Slice(s, a, b) == SubSeq(s, a + 1, Min(b, Len(s)))

\* sum(1 for c in text if cond(c)), given the sequence of the values of cond
RECURSIVE CountTrue(_)
CountTrue(flags) ==
    IF flags = <<>> THEN 0
    ELSE (IF Head(flags) THEN 1 ELSE 0) + CountTrue(Tail(flags))

(***************************************************************************)
(* No call in progress, no manager, no processor.                          *)
(***************************************************************************)
NoCall == [op |-> "none"]

NoRet == [kind |-> "none"]

NoMgr == [state |-> "none"]

NoProc == [state |-> "none"]

\* no request is in flight on the event loop
NoRequests == running = 0 /\ tasks = <<>>

\* the state before any call
Idle ==
    /\ call = NoCall
    /\ ret = NoRet
    /\ trace = <<>>

(***************************************************************************)
(* Characters: str.isascii, str.isalpha on one character, str.isspace.     *)
(***************************************************************************)
isascii(c) == c < 128

\* str.isalpha restricted to ASCII characters (the code tests isascii first)
isalpha_ascii(c) == (65 <= c /\ c <= 90) \/ (97 <= c /\ c <= 122)

\* the white space str.strip() removes, among the characters the model uses
isspace(c) == c \in {9, 10, 11, 12, 13, 32}

RECURSIVE lstrip(_)
lstrip(s) == IF s # <<>> /\ isspace(Head(s)) THEN lstrip(Tail(s)) ELSE s

RECURSIVE rstrip(_)
rstrip(s) ==
    IF s # <<>> /\ isspace(s[Len(s)]) THEN rstrip(SubSeq(s, 1, Len(s) - 1)) ELSE s

\* str.strip()
strip(s) == rstrip(lstrip(s))

(***************************************************************************)
(* DocumentProcessor._detect_language                                      *)
(***************************************************************************)
is_latin(c) == isascii(c) /\ isalpha_ascii(c)

\* U+0600 <= c <= U+06FF
is_arabic(c) == 1536 <= c /\ c <= 1791

\* U+0900 <= c <= U+097F
is_hindi(c) == 2304 <= c /\ c <= 2431

\* U+4E00 <= c <= U+9FFF
is_chinese(c) == 19968 <= c /\ c <= 40959

\* n / total > 0.3 for integers 0 <= n <= total, total > 0.  The quotient of
\* two integers below 2^53 is correctly rounded and 0.3 is the double nearest
\* to 3/10, so the comparison is the exact one for every text shorter than
\* 10^15 characters.
ShareAtLeastThreshold(n, total) == 10 * n >= 3 * total

\* the comparison with a third for threshold
ShareAboveThird(n, total) == 3 * n > total

ShareAboveThreshold(n, total) == 10 * n > 3 * total

\* the dominant-script chain of if / elif / else
DominantScript(arabic_chars, hindi_chars, chinese_chars, total_chars) ==
    IF ShareAboveThreshold(arabic_chars, total_chars) THEN "ar"
    ELSE IF ShareAboveThreshold(hindi_chars, total_chars) THEN "hi"
    ELSE IF ShareAboveThreshold(chinese_chars, total_chars) THEN "zh"
    ELSE "en"

_detect_language(text) ==
    IF text = <<>> THEN "unknown"
    ELSE
        LET latin_chars == CountTrue([i \in DOMAIN text |-> is_latin(text[i])])
            arabic_chars == CountTrue([i \in DOMAIN text |-> is_arabic(text[i])])
            hindi_chars == CountTrue([i \in DOMAIN text |-> is_hindi(text[i])])
            chinese_chars == CountTrue([i \in DOMAIN text |-> is_chinese(text[i])])
            total_chars == latin_chars + arabic_chars + hindi_chars + chinese_chars
        IN  IF total_chars = 0 THEN "unknown"
            ELSE DominantScript(arabic_chars, hindi_chars, chinese_chars, total_chars)

(***************************************************************************)
(* Files.  A file has a name (a text), may exist, and has a body: what the *)
(* library that reads its format finds in it, failures included.           *)
(***************************************************************************)
\* str.lower() on one character: ASCII, Latin-1, Cyrillic
lower_char(c) ==
    IF 65 <= c /\ c <= 90 THEN c + 32
    ELSE IF 192 <= c /\ c <= 222 /\ c # 215 THEN c + 32
    ELSE IF 1040 <= c /\ c <= 1071 THEN c + 32
    ELSE IF 1024 <= c /\ c <= 1039 THEN c + 80
    ELSE c

lower(s) == [i \in DOMAIN s |-> lower_char(s[i])]

\* str.rfind('.'): the 0-based index of the last '.', or -1
RECURSIVE rfind_dot(_)
rfind_dot(s) ==
    IF s = <<>> THEN -1
    ELSE IF s[Len(s)] = 46 THEN Len(s) - 1
    ELSE rfind_dot(SubSeq(s, 1, Len(s) - 1))

\* pathlib's PurePath.suffix of a file name
suffix(name) ==
    LET i == rfind_dot(name)
    IN  IF 0 < i /\ i < Len(name) - 1 THEN Slice(name, i, Len(name)) ELSE <<>>

\* '.pdf', '.docx', '.pptx', '.png', '.jpg', '.jpeg', '.tiff', '.bmp'
supported_formats ==
    {<<46, 112, 100, 102>>, <<46, 100, 111, 99, 120>>, <<46, 112, 112, 116, 120>>,
     <<46, 112, 110, 103>>, <<46, 106, 112, 103>>, <<46, 106, 112, 101, 103>>,
     <<46, 116, 105, 102, 102>>, <<46, 98, 109, 112>>}

\* an exception raised to the caller
Raise(type, msg) == [kind |-> "raise", type |-> type, msg |-> msg]

\* the exception of a format library that failed
LibraryError(lib) == Raise("Exception", lib)

\* what an extractor gives process_document: a value or an exception, and the
\* library calls it made
Outcome(r, t) == [ret |-> r, trace |-> t]

\* dataclass DocumentElement; font_info is {} (None) or a set of one mapping
DocumentElement(text, page_number, element_type, bbox, confidence, language, font_info) ==
    [text |-> text, page_number |-> page_number, element_type |-> element_type,
     bbox |-> bbox, confidence |-> confidence, language |-> language,
     font_info |-> font_info]

\* dataclass ProcessedDocument, as an extractor returns it (summary is None)
ProcessedDocument(filename, total_pages, elements, file_type, size) ==
    [kind |-> "doc", filename |-> filename, total_pages |-> total_pages,
     elements |-> elements, metadata |-> [file_type |-> file_type, size |-> size]]

\* PyPDF2.PdfReader, DocxDocument, Presentation: the library opens a file of
\* its own format, unless the file is damaged
opens_as(body, fmt) == body.fmt = fmt /\ body.open_ok

(***************************************************************************)
(* DocumentProcessor._process_pdf                                          *)
(***************************************************************************)
\* str.split('\n\n')
RECURSIVE split_blank_line(_)
split_blank_line(s) ==
    IF \E i \in 1..(Len(s) - 1) : s[i] = 10 /\ s[i + 1] = 10
    THEN LET i == CHOOSE k \in 1..(Len(s) - 1) :
                    /\ s[k] = 10 /\ s[k + 1] = 10
                    /\ \A j \in 1..(k - 1) : ~(s[j] = 10 /\ s[j + 1] = 10)
         IN  <<SubSeq(s, 1, i - 1)>> \o split_blank_line(SubSeq(s, i + 2, Len(s)))
    ELSE <<s>>

\* [p.strip() for p in parts if p.strip()]
RECURSIVE strip_nonblank(_)
strip_nonblank(parts) ==
    IF parts = <<>> THEN <<>>
    ELSE (IF strip(Head(parts)) # <<>> THEN <<strip(Head(parts))>> ELSE <<>>)
            \o strip_nonblank(Tail(parts))

\* the elements of one page (lines 157-170)
\* the page text as one paragraph
pdf_page_elements_whole(text_content, page_num) ==
    IF strip(text_content) # <<>>
    THEN <<DocumentElement(strip(text_content), page_num, "paragraph",
                           <<0, 0, 500, 50>>, 90, _detect_language(strip(text_content)),
                           {})>>
    ELSE <<>>

pdf_page_elements(text_content, page_num) ==
    IF strip(text_content) # <<>>
    THEN LET paragraphs == strip_nonblank(split_blank_line(text_content))
         IN  [k \in 1..Len(paragraphs) |->
                 DocumentElement(paragraphs[k], page_num, "paragraph",
                                 <<0, (k - 1) * 50, 500, k * 50>>, 90,
                                 _detect_language(paragraphs[k]), {})]
    ELSE <<>>

\* a failure of page.extract_text() as a handler that kept what it had would
\* return it
pdf_page_failed_partial(page_num) ==
    [ok |-> TRUE, elements |-> <<>>, trace |-> <<[lib |-> "extract_text", unit |-> page_num]>>]

\* a failure of page.extract_text(): the exception leaves the loop
pdf_page_failed(page_num) ==
    [ok |-> FALSE, elements |-> <<>>, trace |-> <<[lib |-> "extract_text", unit |-> page_num]>>]

\* the loop over the pages, from page page_num on (lines 153-170)
RECURSIVE pdf_pages(_, _)
pdf_pages(pages, page_num) ==
    IF page_num > Len(pages) THEN [ok |-> TRUE, elements |-> <<>>, trace |-> <<>>]
    ELSE IF ~pages[page_num].ok THEN pdf_page_failed(page_num)
    ELSE LET rest == pdf_pages(pages, page_num + 1)
         IN  [ok |-> rest.ok,
              elements |-> IF rest.ok
                           THEN pdf_page_elements(pages[page_num].text, page_num)
                                    \o rest.elements
                           ELSE <<>>,
              trace |-> <<[lib |-> "extract_text", unit |-> page_num]>> \o rest.trace]

_process_pdf(file) ==
    IF ~opens_as(file.body, "pdf")
    THEN Outcome(LibraryError("PyPDF2"), <<[lib |-> "PdfReader", unit |-> 0]>>)
    ELSE LET total_pages == Len(file.body.pages)
             loop == pdf_pages(file.body.pages, 1)
             t == <<[lib |-> "PdfReader", unit |-> 0]>> \o loop.trace
         IN  IF loop.ok
             THEN Outcome(ProcessedDocument(file.name, total_pages, loop.elements,
                                            "pdf", file.size), t)
             ELSE Outcome(LibraryError("PyPDF2"), t)

(***************************************************************************)
(* DocumentProcessor._process_docx                                         *)
(***************************************************************************)
\* sep.join(parts)
RECURSIVE join(_, _)
join(sep, parts) ==
    IF parts = <<>> THEN <<>>
    ELSE IF Len(parts) = 1 THEN parts[1]
    ELSE parts[1] \o sep \o join(sep, Tail(parts))

\* paragraph.style.name.startswith('Heading'), over the style names of the model
startswith_Heading(style_name) == style_name \in {"Heading 1", "Heading 2"}

\* the element of one paragraph, if any (lines 188-201); para_idx is 0-based
docx_paragraph_elements(paragraph, para_idx) ==
    IF strip(paragraph.text) # <<>>
    THEN <<DocumentElement(paragraph.text, 1,
                           IF startswith_Heading(paragraph.style) THEN "heading"
                           ELSE "paragraph",
                           <<0, para_idx * 30, 500, (para_idx + 1) * 30>>, 100,
                           _detect_language(paragraph.text),
                           {[style |-> paragraph.style]})>>
    ELSE <<>>

\* the loop over doc.paragraphs, from position k (1-based) on (lines 187-201)
RECURSIVE docx_paragraphs(_, _)
docx_paragraphs(paragraphs, k) ==
    IF k > Len(paragraphs) THEN [ok |-> TRUE, elements |-> <<>>, trace |-> <<>>]
    ELSE IF ~paragraphs[k].ok
    THEN [ok |-> FALSE, elements |-> <<>>, trace |-> <<[lib |-> "paragraph", unit |-> k]>>]
    ELSE LET rest == docx_paragraphs(paragraphs, k + 1)
         IN  [ok |-> rest.ok,
              elements |-> IF rest.ok
                           THEN docx_paragraph_elements(paragraphs[k], k - 1)
                                    \o rest.elements
                           ELSE <<>>,
              trace |-> <<[lib |-> "paragraph", unit |-> k]>> \o rest.trace]

\* table_text: one ' | '.join(row_text) per row (lines 205-208)
\* the rows with the cells joined by a bare bar
docx_table_text_bare(table) ==
    [r \in 1..Len(table.rows) |-> join(<<124>>, table.rows[r])]

docx_table_text(table) ==
    [r \in 1..Len(table.rows) |-> join(<<32, 124, 32>>, table.rows[r])]

\* the element of one table, if any (lines 205-219); table_idx is 0-based
docx_table_elements(table, table_idx) ==
    LET table_text == docx_table_text(table)
    IN  IF table_text # <<>>
        THEN <<DocumentElement(join(<<10>>, table_text), 1, "table",
                               <<0, 1000 + table_idx * 100, 500,
                                 1000 + (table_idx + 1) * 100>>, 100,
                               _detect_language(join(<<32>>, table_text)), {})>>
        ELSE <<>>

\* the loop over doc.tables, from position k (1-based) on (lines 204-219)
RECURSIVE docx_tables(_, _)
docx_tables(tables, k) ==
    IF k > Len(tables) THEN [ok |-> TRUE, elements |-> <<>>, trace |-> <<>>]
    ELSE IF ~tables[k].ok
    THEN [ok |-> FALSE, elements |-> <<>>, trace |-> <<[lib |-> "table", unit |-> k]>>]
    ELSE LET rest == docx_tables(tables, k + 1)
         IN  [ok |-> rest.ok,
              elements |-> IF rest.ok
                           THEN docx_table_elements(tables[k], k - 1) \o rest.elements
                           ELSE <<>>,
              trace |-> <<[lib |-> "table", unit |-> k]>> \o rest.trace]

_process_docx(file) ==
    IF ~opens_as(file.body, "docx")
    THEN Outcome(LibraryError("python-docx"), <<[lib |-> "DocxDocument", unit |-> 0]>>)
    ELSE LET paras == docx_paragraphs(file.body.paragraphs, 1)
             opened == <<[lib |-> "DocxDocument", unit |-> 0]>>
         IN  IF ~paras.ok
             THEN Outcome(LibraryError("python-docx"), opened \o paras.trace)
             ELSE LET tabs == docx_tables(file.body.tables, 1)
                      t == opened \o paras.trace \o tabs.trace
                  IN  IF tabs.ok
                      THEN Outcome(ProcessedDocument(file.name, 1,
                                                     paras.elements \o tabs.elements,
                                                     "docx", file.size), t)
                      ELSE Outcome(LibraryError("python-docx"), t)

(***************************************************************************)
(* DocumentProcessor._process_pptx                                         *)
(***************************************************************************)
\* str.isupper(): some cased character, and no lower-case one (ASCII)
isupper(s) ==
    /\ \E i \in DOMAIN s : 65 <= s[i] /\ s[i] <= 90
    /\ \A i \in DOMAIN s : ~(97 <= s[i] /\ s[i] <= 122)

\* the element of one shape with the 0-based number of its slide
pptx_shape_elements_zero_based(shape, slide_num) ==
    IF shape.has_text /\ strip(shape.text) # <<>>
    THEN <<DocumentElement(shape.text, slide_num - 1,
                           IF isupper(shape.text) \/ Len(shape.text) < 50
                           THEN "heading" ELSE "paragraph",
                           <<shape.left, shape.top, shape.left + shape.width,
                             shape.top + shape.height>>, 100,
                           _detect_language(shape.text), {})>>
    ELSE <<>>

\* the element of one shape, if any (lines 235-247)
pptx_shape_elements(shape, slide_num) ==
    IF shape.has_text /\ strip(shape.text) # <<>>
    THEN <<DocumentElement(shape.text, slide_num,
                           IF isupper(shape.text) \/ Len(shape.text) < 50
                           THEN "heading" ELSE "paragraph",
                           <<shape.left, shape.top, shape.left + shape.width,
                             shape.top + shape.height>>, 100,
                           _detect_language(shape.text), {})>>
    ELSE <<>>

\* the loops over prs.slides and slide.shapes, from shape j (1-based) of slide
\* slide_num on (lines 233-247)
RECURSIVE pptx_shapes(_, _, _)
pptx_shapes(slides, slide_num, j) ==
    IF slide_num > Len(slides) THEN [ok |-> TRUE, elements |-> <<>>, trace |-> <<>>]
    ELSE IF j > Len(slides[slide_num]) THEN pptx_shapes(slides, slide_num + 1, 1)
    ELSE IF ~slides[slide_num][j].ok
    THEN [ok |-> FALSE, elements |-> <<>>,
          trace |-> <<[lib |-> "shape", unit |-> slide_num, shape |-> j]>>]
    ELSE LET rest == pptx_shapes(slides, slide_num, j + 1)
         IN  [ok |-> rest.ok,
              elements |-> IF rest.ok
                           THEN pptx_shape_elements(slides[slide_num][j], slide_num)
                                    \o rest.elements
                           ELSE <<>>,
              trace |-> <<[lib |-> "shape", unit |-> slide_num, shape |-> j]>>
                            \o rest.trace]

_process_pptx(file) ==
    IF ~opens_as(file.body, "pptx")
    THEN Outcome(LibraryError("python-pptx"), <<[lib |-> "Presentation", unit |-> 0]>>)
    ELSE LET loop == pptx_shapes(file.body.slides, 1, 1)
             t == <<[lib |-> "Presentation", unit |-> 0]>> \o loop.trace
         IN  IF loop.ok
             THEN Outcome(ProcessedDocument(file.name, Len(file.body.slides),
                                            loop.elements, "pptx", file.size), t)
             ELSE Outcome(LibraryError("python-pptx"), t)

(***************************************************************************)
(* DocumentProcessor._process_image                                        *)
(***************************************************************************)
\* min(...) and max(...) of a non-empty sequence of numbers
seq_min(xs) == CHOOSE m \in {xs[i] : i \in DOMAIN xs} : \A i \in DOMAIN xs : m <= xs[i]

seq_max(xs) == CHOOSE m \in {xs[i] : i \in DOMAIN xs} : \A i \in DOMAIN xs : m >= xs[i]

\* the element of one OCR result (bbox_coords, text, confidence), if any
\* (lines 269-290)
\* a region kept from the acceptance threshold on
image_result_elements_from_threshold(result) ==
    IF result.confidence >= 50 /\ strip(result.text) # <<>>
    THEN LET x_coords == [i \in DOMAIN result.bbox_coords |-> result.bbox_coords[i][1]]
             y_coords == [i \in DOMAIN result.bbox_coords |-> result.bbox_coords[i][2]]
         IN  <<DocumentElement(result.text, 1,
                               IF result.confidence < 80 THEN "handwriting" ELSE "text",
                               <<seq_min(x_coords), seq_min(y_coords),
                                 seq_max(x_coords), seq_max(y_coords)>>,
                               result.confidence, _detect_language(result.text), {})>>
        ELSE <<>>

image_result_elements(result) ==
    IF result.confidence > 50 /\ strip(result.text) # <<>>
    THEN LET x_coords == [i \in DOMAIN result.bbox_coords |-> result.bbox_coords[i][1]]
             y_coords == [i \in DOMAIN result.bbox_coords |-> result.bbox_coords[i][2]]
         IN  <<DocumentElement(result.text, 1,
                               IF result.confidence < 80 THEN "handwriting" ELSE "text",
                               <<seq_min(x_coords), seq_min(y_coords),
                                 seq_max(x_coords), seq_max(y_coords)>>,
                               result.confidence, _detect_language(result.text), {})>>
        ELSE <<>>

\* the loop over ocr_results (lines 268-290)
RECURSIVE image_results(_)
image_results(ocr_results) ==
    IF ocr_results = <<>> THEN <<>>
    ELSE image_result_elements(Head(ocr_results)) \o image_results(Tail(ocr_results))

\* layout analysis, whose failure is logged and dropped (lines 293-299)
image_layout(p) ==
    IF p.layout_model THEN <<[lib |-> "layout_model.detect", unit |-> 0]>> ELSE <<>>

_process_image(p, file) ==
    IF ~(file.body.fmt = "image" /\ file.body.imread_ok)
    THEN Outcome(Raise("ValueError", "Could not load image"),
                 <<[lib |-> "cv2.imread", unit |-> 0]>>)
    ELSE IF ~file.body.readtext_ok
    THEN Outcome(LibraryError("easyocr"),
                 <<[lib |-> "cv2.imread", unit |-> 0], [lib |-> "readtext", unit |-> 0]>>)
    ELSE Outcome(ProcessedDocument(file.name, 1, image_results(file.body.ocr_results),
                                   "image", file.size),
                 <<[lib |-> "cv2.imread", unit |-> 0], [lib |-> "readtext", unit |-> 0]>>
                     \o image_layout(p))

(***************************************************************************)
(* DocumentProcessor.process_document                                      *)
(***************************************************************************)
\* the route to the extractor of a supported format (lines 131-139)
route_case_sensitive(p, file) ==
    LET ext == suffix(file.name)
    IN  IF ext = <<46, 112, 100, 102>>
        THEN [fn |-> "_process_pdf", out |-> _process_pdf(file)]
        ELSE IF ext = <<46, 100, 111, 99, 120>>
        THEN [fn |-> "_process_docx", out |-> _process_docx(file)]
        ELSE IF ext = <<46, 112, 112, 116, 120>>
        THEN [fn |-> "_process_pptx", out |-> _process_pptx(file)]
        ELSE [fn |-> "_process_image", out |-> _process_image(p, file)]

route(p, file) ==
    LET ext == lower(suffix(file.name))
    IN  IF ext = <<46, 112, 100, 102>>
        THEN [fn |-> "_process_pdf", out |-> _process_pdf(file)]
        ELSE IF ext = <<46, 100, 111, 99, 120>>
        THEN [fn |-> "_process_docx", out |-> _process_docx(file)]
        ELSE IF ext = <<46, 112, 112, 116, 120>>
        THEN [fn |-> "_process_pptx", out |-> _process_pptx(file)]
        ELSE [fn |-> "_process_image", out |-> _process_image(p, file)]

\* the whole method; the handler of lines 141-143 logs and re-raises
process_document(p, file) ==
    IF ~file.exists
    THEN Outcome(Raise("FileNotFoundError", "File not found"), <<>>)
    ELSE IF lower(suffix(file.name)) \notin p.supported_formats
    THEN Outcome(Raise("ValueError", "Unsupported format"), <<>>)
    ELSE LET r == route(p, file)
         IN  Outcome(r.out.ret, <<[fn |-> r.fn]>> \o r.out.trace)

(***************************************************************************)
(* DocumentProcessor.get_document_stats                                    *)
(***************************************************************************)
\* dict.get(key, 0) + 1 stored under key
count_up(counts, key) ==
    [x \in DOMAIN counts \cup {key} |->
        (IF x \in DOMAIN counts THEN counts[x] ELSE 0) + (IF x = key THEN 1 ELSE 0)]

\* a float quotient sum / n, kept as the pair
Quotient(sum, n) == [num |-> sum, den |-> n]

\* the loop of lines 345-357 from element k on
RECURSIVE stats_loop(_, _, _)
stats_loop(elements, k, stats) ==
    IF k > Len(elements) THEN stats
    ELSE LET element == elements[k]
         IN  stats_loop(elements, k + 1,
                 [stats EXCEPT
                     !.element_types = count_up(@, element.element_type),
                     !.languages = IF element.language # ""
                                   THEN count_up(@, element.language) ELSE @,
                     !.avg_confidence = @ + element.confidence,
                     !.total_text_length = @ + Len(element.text)])

\* the quotient taken whether or not there are elements
mean_confidence_unguarded(sum, elements) == Quotient(sum, Len(elements))

\* lines 359-360: the sum is divided when there are elements, else left at 0
mean_confidence(sum, elements) ==
    IF elements # <<>> THEN Quotient(sum, Len(elements)) ELSE Quotient(0, 1)

\* the whole method: the statistics, and the document as the call leaves it
get_document_stats(document) ==
    LET stats == stats_loop(document.elements, 1,
                            [total_elements |-> Len(document.elements),
                             total_pages |-> document.total_pages,
                             element_types |-> <<>>,
                             languages |-> <<>>,
                             avg_confidence |-> 0,
                             total_text_length |-> 0])
    IN  [ret |-> [kind |-> "stats",
                  total_elements |-> stats.total_elements,
                  total_pages |-> stats.total_pages,
                  element_types |-> stats.element_types,
                  languages |-> stats.languages,
                  avg_confidence |-> mean_confidence(stats.avg_confidence,
                                                     document.elements),
                  total_text_length |-> stats.total_text_length],
         document |-> document]

(***************************************************************************)
(* AIModelManager._load_models                                             *)
(***************************************************************************)
\* self.models_loaded of line 39, and no model yet
NewManager ==
    [state |-> "loading",
     embedding_model |-> FALSE, summarizer |-> FALSE, qa_model |-> FALSE,
     classifier |-> FALSE, lang_detector |-> FALSE,
     models_loaded |-> [embedding |-> FALSE, summarizer |-> FALSE, qa |-> FALSE,
                        classifier |-> FALSE, lang_detector |-> FALSE]]

\* one try / except block of lines 41-91: the model is loaded and its flag
\* set, or the failure is logged and the model is None
load_model(m, field, flag, loaded) ==
    IF loaded THEN [m EXCEPT ![field] = TRUE, !.models_loaded[flag] = TRUE]
    ELSE [m EXCEPT ![field] = FALSE]

\* lines 93-101: the language detector is not loaded
skip_lang_detector(m) ==
    [m EXCEPT !.lang_detector = FALSE, !.models_loaded.lang_detector = FALSE]

\* fewer than two models loaded (line 111), taken as fatal
too_few_models(m) ==
    Cardinality({k \in DOMAIN m.models_loaded : m.models_loaded[k]}) < 2

\* the test of line 104 for the fatal error
missing_essential(m) == ~m.models_loaded.embedding

\* loads[x]: whether the library loads model x
_load_models(loads) ==
    LET m1 == load_model(NewManager, "embedding_model", "embedding", loads.embedding)
        m2 == load_model(m1, "summarizer", "summarizer", loads.summarizer)
        m3 == load_model(m2, "qa_model", "qa", loads.qa)
        m4 == load_model(m3, "classifier", "classifier", loads.classifier)
        m5 == skip_lang_detector(m4)
        attempts == <<[lib |-> "SentenceTransformer", model |-> "embedding"],
                      [lib |-> "pipeline", model |-> "summarizer"],
                      [lib |-> "pipeline", model |-> "qa"],
                      [lib |-> "pipeline", model |-> "classifier"]>>
    IN  IF missing_essential(m5)
        THEN [mgr |-> [m5 EXCEPT !.state = "failed"],
              ret |-> Raise("Exception", "Essential embedding model could not be loaded"),
              trace |-> attempts]
        ELSE [mgr |-> [m5 EXCEPT !.state = "ready"],
              ret |-> [kind |-> "constructed"],
              trace |-> attempts]

(***************************************************************************)
(* AIModelManager.summarize_text                                           *)
(***************************************************************************)
\* dataclass ModelResponse.  The clock is not modelled: processing_time is 0.
ModelResponse(content, confidence, metadata) ==
    [kind |-> "response", content |-> content, confidence |-> confidence,
     metadata |-> metadata, processing_time |-> 0]

\* an f-string: its literal text, with {} for each value, and the values
FString(fmt, args) == [fmt |-> fmt, args |-> args]

\* [text[i:i+size] for i in range(0, len(text), step)]
chunks_of(text, size, step) ==
    [k \in 1..((Len(text) + step - 1) \div step) |->
        Slice(text, (k - 1) * step, (k - 1) * step + size)]

\* a call of the summarization pipeline, as the trace shows it
SummarizerCall(text, max_length, min_length) ==
    [lib |-> "summarizer", text |-> text, max_length |-> max_length,
     min_length |-> min_length]

\* the summary the pipeline gives when it does not fail: a text of the length
\* the library chose
SummaryText(outcome) == Rep(115, outcome.len)

\* the loop over the chunks, from chunk k on (lines 157-164).  oracle[i] is
\* what the i-th call of the pipeline does; a call past the end of the
\* oracle is "starved".
RECURSIVE summarize_chunks(_, _, _, _, _)
summarize_chunks(chunks, k, max_length, min_length, oracle) ==
    IF k > Len(chunks) THEN [st |-> "ok", summaries |-> <<>>, trace |-> <<>>]
    ELSE LET c == SummarizerCall(chunks[k], max_length \div Len(chunks),
                                 min_length \div Len(chunks))
         IN  IF k > Len(oracle) THEN [st |-> "starved", summaries |-> <<>>, trace |-> <<>>]
             ELSE IF ~oracle[k].ok
             THEN [st |-> "raise", summaries |-> <<>>, trace |-> <<c>>]
             ELSE LET rest == summarize_chunks(chunks, k + 1, max_length, min_length,
                                               oracle)
                  IN  [st |-> rest.st,
                       summaries |-> <<SummaryText(oracle[k])>> \o rest.summaries,
                       trace |-> <<c>> \o rest.trace]

\* the chunked branch with the second pass from twice the target length on
summarize_chunked_second_pass_early(text, max_length, min_length, oracle) ==
    LET chunks == chunks_of(text, 1000, 1000)
        loop == summarize_chunks(chunks, 1, max_length, min_length, oracle)
        combined_summary == join(<<32>>, loop.summaries)
        n == Len(chunks)
    IN  IF loop.st # "ok" THEN [st |-> loop.st, summary |-> <<>>, trace |-> loop.trace]
        ELSE IF Len(combined_summary) >= max_length * 2
        THEN LET c == SummarizerCall(combined_summary, max_length, min_length)
             IN  IF n + 1 > Len(oracle)
                 THEN [st |-> "starved", summary |-> <<>>, trace |-> loop.trace]
                 ELSE IF ~oracle[n + 1].ok
                 THEN [st |-> "raise", summary |-> <<>>, trace |-> loop.trace \o <<c>>]
                 ELSE [st |-> "ok", summary |-> SummaryText(oracle[n + 1]),
                       trace |-> loop.trace \o <<c>>]
        ELSE [st |-> "ok", summary |-> combined_summary, trace |-> loop.trace]

\* the chunked branch with chunks starting every 500 characters
summarize_chunked_overlapping(text, max_length, min_length, oracle) ==
    LET chunks == chunks_of(text, 1000, 500)
        loop == summarize_chunks(chunks, 1, max_length, min_length, oracle)
        combined_summary == join(<<32>>, loop.summaries)
        n == Len(chunks)
    IN  IF loop.st # "ok" THEN [st |-> loop.st, summary |-> <<>>, trace |-> loop.trace]
        ELSE IF Len(combined_summary) > max_length * 2
        THEN LET c == SummarizerCall(combined_summary, max_length, min_length)
             IN  IF n + 1 > Len(oracle)
                 THEN [st |-> "starved", summary |-> <<>>, trace |-> loop.trace]
                 ELSE IF ~oracle[n + 1].ok
                 THEN [st |-> "raise", summary |-> <<>>, trace |-> loop.trace \o <<c>>]
                 ELSE [st |-> "ok", summary |-> SummaryText(oracle[n + 1]),
                       trace |-> loop.trace \o <<c>>]
        ELSE [st |-> "ok", summary |-> combined_summary, trace |-> loop.trace]

\* the chunked branch (lines 154-179)
summarize_chunked(text, max_length, min_length, oracle) ==
    LET chunks == chunks_of(text, 1000, 1000)
        loop == summarize_chunks(chunks, 1, max_length, min_length, oracle)
        combined_summary == join(<<32>>, loop.summaries)
        n == Len(chunks)
    IN  IF loop.st # "ok" THEN [st |-> loop.st, summary |-> <<>>, trace |-> loop.trace]
        ELSE IF Len(combined_summary) > max_length * 2
        THEN LET c == SummarizerCall(combined_summary, max_length, min_length)
             IN  IF n + 1 > Len(oracle)
                 THEN [st |-> "starved", summary |-> <<>>, trace |-> loop.trace]
                 ELSE IF ~oracle[n + 1].ok
                 THEN [st |-> "raise", summary |-> <<>>, trace |-> loop.trace \o <<c>>]
                 ELSE [st |-> "ok", summary |-> SummaryText(oracle[n + 1]),
                       trace |-> loop.trace \o <<c>>]
        ELSE [st |-> "ok", summary |-> combined_summary, trace |-> loop.trace]

\* the direct branch with the lengths divided as for one chunk of two
summarize_direct_halved(text, max_length, min_length, oracle) ==
    LET c == SummarizerCall(text, max_length \div 2, min_length \div 2)
    IN  IF 1 > Len(oracle) THEN [st |-> "starved", summary |-> <<>>, trace |-> <<>>]
        ELSE IF ~oracle[1].ok THEN [st |-> "raise", summary |-> <<>>, trace |-> <<c>>]
        ELSE [st |-> "ok", summary |-> SummaryText(oracle[1]), trace |-> <<c>>]

\* the direct branch (lines 181-187)
summarize_direct(text, max_length, min_length, oracle) ==
    LET c == SummarizerCall(text, max_length, min_length)
    IN  IF 1 > Len(oracle) THEN [st |-> "starved", summary |-> <<>>, trace |-> <<>>]
        ELSE IF ~oracle[1].ok THEN [st |-> "raise", summary |-> <<>>, trace |-> <<c>>]
        ELSE [st |-> "ok", summary |-> SummaryText(oracle[1]), trace |-> <<c>>]

\* the fallback of lines 141-147
summarize_fallback(text, language) ==
    ModelResponse(
        FString("Summary unavailable (model not loaded). Text preview: {}...",
                <<Slice(text, 0, 200)>>),
        0, [fallback |-> TRUE, language |-> language])

\* the handler keeping the confidence of a summary
summarize_error_confident ==
    ModelResponse(FString("Error generating summary: {}", <<"str(e)">>),
                  80, [error |-> "str(e)"])

\* the handler of lines 198-205
summarize_error ==
    ModelResponse(FString("Error generating summary: {}", <<"str(e)">>),
                  0, [error |-> "str(e)"])

\* the whole method: [st, ret, trace]; st is "starved" when the oracle is
\* shorter than the calls made, else "done"
summarize_text(m, text, max_length, min_length, language, oracle) ==
    IF ~m.summarizer
    THEN [st |-> "done", ret |-> summarize_fallback(text, language), trace |-> <<>>]
    ELSE LET r == IF Len(text) > 1000
                  THEN summarize_chunked(text, max_length, min_length, oracle)
                  ELSE summarize_direct(text, max_length, min_length, oracle)
         IN  IF r.st = "starved" THEN [st |-> "starved", ret |-> NoRet, trace |-> r.trace]
             ELSE IF r.st = "raise"
             THEN [st |-> "done", ret |-> summarize_error, trace |-> r.trace]
             ELSE [st |-> "done",
                   ret |-> ModelResponse(FString("{}", <<r.summary>>), 80,
                                         [language |-> language,
                                          original_length |-> Len(text)]),
                   trace |-> r.trace]

(***************************************************************************)
(* AIModelManager.answer_question                                          *)
(***************************************************************************)
\* a call of the question-answering pipeline, as the trace shows it
QACall(question, context) == [lib |-> "qa_model", question |-> question, context |-> context]

\* the result the pipeline gives when it does not fail: an answer taken from
\* the context (here its first character) and the score the library chose
QAResult(context, outcome) == [answer |-> Slice(context, 0, 1), score |-> outcome.score]

\* the result replacing the best one when its score is as high
qa_better_or_equal(result, best) ==
    IF result.score >= best.score THEN [found |-> TRUE, score |-> result.score,
                                         answer |-> result.answer]
    ELSE best

\* lines 241-243: the result replaces the best one when its score is higher
qa_better(result, best) ==
    IF result.score > best.score THEN [found |-> TRUE, score |-> result.score,
                                        answer |-> result.answer]
    ELSE best

\* the loop over the windows, from window k on (lines 239-243), best being
\* best_answer and best_score so far
RECURSIVE qa_windows(_, _, _, _, _)
qa_windows(chunks, k, question, best, oracle) ==
    IF k > Len(chunks) THEN [st |-> "ok", best |-> best, trace |-> <<>>]
    ELSE LET c == QACall(question, chunks[k])
         IN  IF k > Len(oracle) THEN [st |-> "starved", best |-> best, trace |-> <<>>]
             ELSE IF ~oracle[k].ok THEN [st |-> "raise", best |-> best, trace |-> <<c>>]
             ELSE LET rest == qa_windows(chunks, k + 1, question,
                                         qa_better(QAResult(chunks[k], oracle[k]), best),
                                         oracle)
                  IN  [st |-> rest.st, best |-> rest.best, trace |-> <<c>> \o rest.trace]

\* the sliding-window branch failing when no window gave an answer
answer_chunked_or_fail(question, context, oracle) ==
    LET max_context_length == 2000
        stride == max_context_length \div 2
        chunks == chunks_of(context, max_context_length, stride)
        loop == qa_windows(chunks, 1, question,
                           [found |-> FALSE, score |-> 0, answer |-> <<>>], oracle)
    IN  [st |-> IF loop.st = "ok" /\ ~loop.best.found THEN "raise" ELSE loop.st,
         content |-> FString("{}", <<loop.best.answer>>),
         confidence |-> loop.best.score,
         trace |-> loop.trace]

\* the sliding-window branch with windows one after the other, no overlap
answer_chunked_disjoint(question, context, oracle) ==
    LET max_context_length == 2000
        stride == max_context_length
        chunks == chunks_of(context, max_context_length, stride)
        loop == qa_windows(chunks, 1, question,
                           [found |-> FALSE, score |-> 0, answer |-> <<>>], oracle)
    IN  [st |-> loop.st,
         content |-> IF loop.best.found THEN FString("{}", <<loop.best.answer>>)
                     ELSE FString("No answer found", <<>>),
         confidence |-> IF loop.best.found THEN loop.best.score ELSE 0,
         trace |-> loop.trace]

\* the sliding-window branch (lines 230-246)
answer_chunked(question, context, oracle) ==
    LET max_context_length == 2000
        stride == max_context_length \div 2
        chunks == chunks_of(context, max_context_length, stride)
        loop == qa_windows(chunks, 1, question,
                           [found |-> FALSE, score |-> 0, answer |-> <<>>], oracle)
    IN  [st |-> loop.st,
         content |-> IF loop.best.found THEN FString("{}", <<loop.best.answer>>)
                     ELSE FString("No answer found", <<>>),
         confidence |-> IF loop.best.found THEN loop.best.score ELSE 0,
         trace |-> loop.trace]

\* the direct branch (lines 248-250)
answer_direct(question, context, oracle) ==
    LET c == QACall(question, context)
    IN  IF 1 > Len(oracle)
        THEN [st |-> "starved", content |-> FString("", <<>>), confidence |-> 0,
              trace |-> <<>>]
        ELSE IF ~oracle[1].ok
        THEN [st |-> "raise", content |-> FString("", <<>>), confidence |-> 0,
              trace |-> <<c>>]
        ELSE [st |-> "ok",
              content |-> FString("{}", <<QAResult(context, oracle[1]).answer>>),
              confidence |-> QAResult(context, oracle[1]).score,
              trace |-> <<c>>]

\* the fallback of lines 218-224
answer_fallback(question, context, language) ==
    ModelResponse(
        FString("Question answering unavailable (model not loaded). Based on the context, here's relevant text: {}...",
                <<Slice(context, 0, 300)>>),
        0, [fallback |-> TRUE, question |-> question, language |-> language])

\* the handler of lines 261-268
answer_error(question) ==
    ModelResponse(FString("Error answering question: {}", <<"str(e)">>),
                  0, [error |-> "str(e)", question |-> question])

\* the method answering with the best window so far when the pipeline fails
answer_question_partial(m, question, context, language, oracle) ==
    IF ~m.qa_model
    THEN [st |-> "done", ret |-> answer_fallback(question, context, language),
          trace |-> <<>>]
    ELSE LET r == IF Len(context) > 2000
                  THEN answer_chunked(question, context, oracle)
                  ELSE answer_direct(question, context, oracle)
         IN  IF r.st = "starved" THEN [st |-> "starved", ret |-> NoRet, trace |-> r.trace]
             ELSE IF r.st = "raise" /\ Len(r.trace) = 1
             THEN [st |-> "done", ret |-> answer_error(question), trace |-> r.trace]
             ELSE [st |-> "done",
                   ret |-> ModelResponse(r.content, r.confidence,
                                         [question |-> question, language |-> language]),
                   trace |-> r.trace]

\* the whole method: [st, ret, trace]
answer_question(m, question, context, language, oracle) ==
    IF ~m.qa_model
    THEN [st |-> "done", ret |-> answer_fallback(question, context, language),
          trace |-> <<>>]
    ELSE LET r == IF Len(context) > 2000
                  THEN answer_chunked(question, context, oracle)
                  ELSE answer_direct(question, context, oracle)
         IN  IF r.st = "starved" THEN [st |-> "starved", ret |-> NoRet, trace |-> r.trace]
             ELSE IF r.st = "raise"
             THEN [st |-> "done", ret |-> answer_error(question), trace |-> r.trace]
             ELSE [st |-> "done",
                   ret |-> ModelResponse(r.content, r.confidence,
                                         [question |-> question, language |-> language]),
                   trace |-> r.trace]

(***************************************************************************)
(* AIModelManager.detect_language                                          *)
(***************************************************************************)
\* re.search(r'[...]', s): some character of s is in the class
re_search(class, s) == \E i \in DOMAIN s : s[i] \in class

\* [a-ya, yo] of line 280: U+0430-U+044F, U+0451
CyrillicClass == (1072..1103) \cup {1105}

\* the four characters of line 282: U+4E2D, U+6587, U+6C49, U+8BED
ChineseClass == {20013, 25991, 27721, 35821}

\* the seven characters of line 284
SpanishClass == {241, 225, 233, 237, 243, 250, 252}

\* the eighteen characters of line 286
FrenchClass ==
    {224, 225, 226, 228, 231, 232, 233, 234, 235, 239, 238, 244, 246, 249, 250, 251,
     252, 255}

\* the strings 'unknown', 'ru', 'zh', 'es', 'fr' and 'en' the method returns
LangUnknown == <<117, 110, 107, 110, 111, 119, 110>>

LangRu == <<114, 117>>

LangZh == <<122, 104>>

LangEs == <<101, 115>>

LangFr == <<102, 114>>

LangEn == <<101, 110>>

\* the regex heuristic of lines 279-289
detect_by_regex(text) ==
    IF re_search(CyrillicClass, lower(text)) THEN LangRu
    ELSE IF re_search(ChineseClass, text) THEN LangZh
    ELSE IF re_search(SpanishClass, lower(text)) THEN LangEs
    ELSE IF re_search(FrenchClass, lower(text)) THEN LangFr
    ELSE LangEn

\* the whole method: [st, ret, trace]; the handler of lines 300-302 gives 'en'
detect_language(m, text, oracle) ==
    IF strip(text) = <<>>
    THEN [st |-> "done", ret |-> [kind |-> "string", value |-> LangUnknown], trace |-> <<>>]
    ELSE IF ~m.lang_detector
    THEN [st |-> "done", ret |-> [kind |-> "string", value |-> detect_by_regex(text)],
          trace |-> <<>>]
    ELSE LET c == [lib |-> "lang_detector", text |-> Slice(text, 0, 500)]
         IN  IF 1 > Len(oracle) THEN [st |-> "starved", ret |-> NoRet, trace |-> <<>>]
             ELSE IF ~oracle[1].ok
             THEN [st |-> "done", ret |-> [kind |-> "string", value |-> LangEn],
                   trace |-> <<c>>]
             ELSE [st |-> "done",
                   ret |-> [kind |-> "string",
                            value |-> IF oracle[1].labels # <<>>
                                      THEN lower(oracle[1].labels[1])
                                      ELSE LangUnknown],
                   trace |-> <<c>>]

(***************************************************************************)
(* AIModelManager.analyze_sentiment                                        *)
(***************************************************************************)
\* the exception passed on to the caller
sentiment_error_raised == Raise("Exception", "str(e)")

\* the handler of lines 315-322
sentiment_error ==
    [kind |-> "mapping", sentiment |-> "neutral", confidence |-> 0,
     analysis |-> "error", error |-> "str(e)"]

\* the whole method: [st, ret, trace].  With no classifier, self.classifier
\* is None and calling it raises TypeError inside the try.
analyze_sentiment(m, text, oracle) ==
    IF ~m.classifier THEN [st |-> "done", ret |-> sentiment_error, trace |-> <<>>]
    ELSE LET c == [lib |-> "classifier", text |-> Slice(text, 0, 500)]
         IN  IF 1 > Len(oracle) THEN [st |-> "starved", ret |-> NoRet, trace |-> <<>>]
             ELSE IF ~oracle[1].ok
             THEN [st |-> "done", ret |-> sentiment_error, trace |-> <<c>>]
             ELSE [st |-> "done",
                   ret |-> [kind |-> "mapping", sentiment |-> oracle[1].label,
                            confidence |-> oracle[1].score,
                            analysis |-> "multilingual_sentiment"],
                   trace |-> <<c>>]

(***************************************************************************)
(* AIModelManager.extract_key_phrases                                      *)
(***************************************************************************)
\* s with its leading '.', '!' and '?' removed
RECURSIVE skip_terminal(_)
skip_terminal(s) ==
    IF s # <<>> /\ Head(s) \in {46, 33, 63} THEN skip_terminal(Tail(s)) ELSE s

\* re.split(r'[.!?]+', cur + s), cur holding no '.', '!' or '?'
RECURSIVE re_split_terminal(_, _)
re_split_terminal(s, cur) ==
    IF s = <<>> THEN <<cur>>
    ELSE IF Head(s) \in {46, 33, 63}
    THEN <<cur>> \o re_split_terminal(skip_terminal(s), <<>>)
    ELSE re_split_terminal(Tail(s), Append(cur, Head(s)))

\* Python's s[-k:]
last_k(s, k) ==
    LET n == Len(s)
        start == IF -k < 0 THEN Max(n - k, 0) ELSE Min(-k, n)
    IN  SubSeq(s, start + 1, n)

\* s[::-1]
reversed(s) == [i \in 1..Len(s) |-> s[Len(s) + 1 - i]]

\* the name of feature i (0-based) of the vectorizer: 'f0', 'f1', ...
feature_name(i) == <<102, 48 + i>>

\* lines 352-356, given mean_scores and np.argsort(mean_scores), 0-based
top_phrases(mean_scores, argsort, top_k) ==
    LET top_indices == reversed(last_k(argsort, top_k))
        kept == SelectSeq(top_indices, LAMBDA i : mean_scores[i + 1] > 0)
    IN  [j \in 1..Len(kept) |-> feature_name(kept[j])]

\* the whole method: [st, ret, trace]; the handler of lines 360-362 gives []
extract_key_phrases(text, top_k, oracle) ==
    LET sentences == strip_nonblank(re_split_terminal(text, <<>>))
    IN  IF Len(sentences) < 2
        THEN [st |-> "done",
              ret |-> [kind |-> "sequence",
                       items |-> IF text # <<>> THEN <<Slice(text, 0, 50)>> ELSE <<>>],
              trace |-> <<>>]
        ELSE LET c == [lib |-> "TfidfVectorizer", sentences |-> sentences]
             IN  IF 1 > Len(oracle) THEN [st |-> "starved", ret |-> NoRet, trace |-> <<>>]
                 ELSE IF ~oracle[1].ok
                 THEN [st |-> "done", ret |-> [kind |-> "sequence", items |-> <<>>],
                       trace |-> <<c>>]
                 ELSE [st |-> "done",
                       ret |-> [kind |-> "sequence",
                                items |-> top_phrases(oracle[1].mean_scores,
                                                      oracle[1].argsort, top_k)],
                       trace |-> <<c>>]

(***************************************************************************)
(* DocumentAnalyzer.analyze_document_structure                             *)
(***************************************************************************)
\* str.split(ch), cur being the part under way
RECURSIVE split_char(_, _, _)
split_char(s, ch, cur) ==
    IF s = <<>> THEN <<cur>>
    ELSE IF Head(s) = ch THEN <<cur>> \o split_char(Tail(s), ch, <<>>)
    ELSE split_char(Tail(s), ch, Append(cur, Head(s)))

\* len(s.split()): the number of runs of characters that are not white space
num_words(s) ==
    Cardinality({i \in DOMAIN s : ~isspace(s[i]) /\ (i = 1 \/ isspace(s[i - 1]))})

\* sum(len(s.split()) for s in sentences)
RECURSIVE sum_words(_)
sum_words(sentences) ==
    IF sentences = <<>> THEN 0 ELSE num_words(Head(sentences)) + sum_words(Tail(sentences))

\* lines 429-433: max(0, min(100, 100 - (avg_sentence_length - 10) * 2)), the
\* float kept as an exact quotient
readability_score(combined_text) ==
    LET sentences == split_char(combined_text, 46, <<>>)
        n == Len(sentences)
        twice == 120 * n - 2 * sum_words(sentences)
    IN  IF twice >= 100 * n THEN Quotient(100, 1)
        ELSE IF twice <= 0 THEN Quotient(0, 1)
        ELSE Quotient(twice, n)

\* the loop of lines 399-412 from element k on.  lang_detector is never
\* loaded (lines 93-97), so detect_language calls no library here.
RECURSIVE analysis_loop(_, _, _, _)
analysis_loop(m, elements, k, acc) ==
    IF k > Len(elements) THEN acc
    ELSE LET element == elements[k]
             counted == [acc EXCEPT !.element_types = count_up(@, element.element_type)]
         IN  analysis_loop(m, elements, k + 1,
                 IF strip(element.text) # <<>>
                 THEN LET lang == detect_language(m, element.text, <<>>).ret.value
                      IN  [counted EXCEPT
                              !.all_text = Append(@, element.text),
                              !.languages_detected = count_up(@, lang)]
                 ELSE counted)

\* the whole method: [st, ret, trace].  oracle.topics is what the vectorizer
\* does in extract_key_phrases, oracle.sentiment what the classifier does in
\* analyze_sentiment; "starved" names the one that is too short.
analyze_document_structure(m, elements, oracle) ==
    LET acc == analysis_loop(m, elements, 1,
                             [element_types |-> <<>>, languages_detected |-> <<>>,
                              all_text |-> <<>>])
        combined_text == join(<<32>>, acc.all_text)
        topics == extract_key_phrases(combined_text, 10, oracle.topics)
        mood == analyze_sentiment(m, combined_text, oracle.sentiment)
        analysis == [kind |-> "mapping",
                     total_elements |-> Len(elements),
                     element_types |-> acc.element_types,
                     languages_detected |-> acc.languages_detected,
                     key_topics |-> <<>>,
                     sentiment_analysis |-> <<>>,
                     readability_score |-> Quotient(0, 1),
                     structure_quality |-> "good"]
    IN  IF acc.all_text = <<>> THEN [st |-> "done", ret |-> analysis, trace |-> <<>>]
        ELSE IF topics.st = "starved"
        THEN [st |-> "starved", need |-> "topics", ret |-> NoRet, trace |-> <<>>]
        ELSE IF mood.st = "starved"
        THEN [st |-> "starved", need |-> "sentiment", ret |-> NoRet, trace |-> topics.trace]
        ELSE [st |-> "done",
              ret |-> [analysis EXCEPT
                          !.key_topics = topics.ret.items,
                          !.sentiment_analysis = mood.ret,
                          !.readability_score = readability_score(combined_text)],
              trace |-> topics.trace \o mood.trace]

(***************************************************************************)
(* The files process_document is called on.                                *)
(***************************************************************************)
NoBody == [fmt |-> "none"]

\* page.extract_text(): a failure, or the text of the page
\* '', ' ', 'a', 'a\na', 'a\n\na', 'a\n\n\na', '\n\na\n', 'a\n\n \n\na'
PageTexts ==
    {<<>>, <<32>>, <<97>>, <<97, 10, 97>>, <<97, 10, 10, 97>>, <<97, 10, 10, 10, 97>>,
     <<10, 10, 97, 10>>, <<97, 10, 10, 32, 10, 10, 97>>, <<97, 10, 32, 10, 97>>}

Pages == {[ok |-> FALSE]} \cup {[ok |-> TRUE, text |-> t] : t \in PageTexts}

PdfBodies(n) ==
    {[fmt |-> "pdf", open_ok |-> FALSE]}
        \cup {[fmt |-> "pdf", open_ok |-> TRUE, pages |-> ps] : ps \in SeqsUpTo(Pages, n)}

\* a paragraph of a DOCX: a failure, or its text and the name of its style
\* 'a', ' ', '', ' a ', two Arabic letters
Paragraphs ==
    {[ok |-> FALSE]}
        \cup {[ok |-> TRUE, text |-> t, style |-> "Normal"] :
                 t \in {<<97>>, <<32>>, <<>>, <<32, 97, 32>>, <<1593, 1593>>}}
        \cup {[ok |-> TRUE, text |-> <<97>>, style |-> "Heading 1"]}

\* a table of a DOCX: a failure, or its rows of cell texts
\* no row; [['']]; [['A']]; [['', '']]; [['A', 'B'], ['C', 'D']]
Tables ==
    {[ok |-> FALSE]}
        \cup {[ok |-> TRUE, rows |-> r] :
                 r \in {<<>>, <<<< <<>> >>>>, <<<< <<65>> >>>>, <<<< <<>>, <<>> >>>>,
                        << << <<65>>, <<66>> >>, << <<67>>, <<68>> >> >>}}

\* a DOCX of LongDocxParagraphs paragraphs 'a' and one table [['A']]
LongDocx ==
    [fmt |-> "docx", open_ok |-> TRUE,
     paragraphs |-> [k \in 1..LongDocxParagraphs |->
                        [ok |-> TRUE, text |-> <<97>>, style |-> "Normal"]],
     tables |-> <<[ok |-> TRUE, rows |-> <<<< <<65>> >>>>]>>]

DocxBodies(n) ==
    {[fmt |-> "docx", open_ok |-> FALSE]}
        \cup UNION {{[fmt |-> "docx", open_ok |-> TRUE, paragraphs |-> ps, tables |-> ts] :
                        ts \in SeqsUpTo(Tables, n - Len(ps))} :
                    ps \in SeqsUpTo(Paragraphs, n)}

\* a shape of a slide: a failure, a shape without text, or a shape with text
\* ' ', 'a', 49 times 'a', 50 times 'a', 50 times 'A'
Shapes ==
    {[ok |-> FALSE],
     [ok |-> TRUE, has_text |-> FALSE, text |-> <<>>,
      left |-> 10, top |-> 20, width |-> 100, height |-> 40]}
        \cup {[ok |-> TRUE, has_text |-> TRUE, text |-> t,
               left |-> 10, top |-> 20, width |-> 100, height |-> 40] :
                 t \in {<<32>>, <<97>>, Rep(97, 49), Rep(97, 50), Rep(65, 50)}}

\* the presentations whose slides and shapes number n at most
RECURSIVE Decks(_)
Decks(n) ==
    IF n <= 0 THEN {<<>>}
    ELSE {<<>>} \cup UNION {{<<slide>> \o d : d \in Decks(n - 1 - Len(slide))} :
                            slide \in SeqsUpTo(Shapes, n - 1)}

PptxBodies(n) ==
    {[fmt |-> "pptx", open_ok |-> FALSE]}
        \cup {[fmt |-> "pptx", open_ok |-> TRUE, slides |-> d] : d \in Decks(n)}

\* a result of the OCR engine: the polygon of the region, its text, its score
OcrResults ==
    {[bbox_coords |-> << <<10, 5>>, <<40, 8>>, <<38, 20>>, <<8, 17>> >>,
      text |-> r[1], confidence |-> r[2]] :
        r \in {<< <<97>>, 30 >>, << <<97>>, 50 >>, << <<97>>, 51 >>, << <<97>>, 79 >>,
               << <<97>>, 80 >>, << <<97>>, 100 >>, << <<32>>, 90 >>, << <<>>, 90 >>}}

ImageBodies(n) ==
    {[fmt |-> "image", imread_ok |-> FALSE],
     [fmt |-> "image", imread_ok |-> TRUE, readtext_ok |-> FALSE]}
        \cup {[fmt |-> "image", imread_ok |-> TRUE, readtext_ok |-> TRUE,
               ocr_results |-> rs, detect_ok |-> d] :
                 rs \in SeqsUpTo(OcrResults, n), d \in BOOLEAN}

\* 'a.pdf', 'a.PDF', 'a.b.Pdf'
PdfNames ==
    {<<97, 46, 112, 100, 102>>,
     <<97, 46, 80, 68, 70>>,
     <<97, 46, 98, 46, 80, 100, 102>>}

\* 'a.docx', 'a.DOCX'
DocxNames ==
    {<<97, 46, 100, 111, 99, 120>>,
     <<97, 46, 68, 79, 67, 88>>}

\* 'a.pptx', 'a.PpTx'
PptxNames ==
    {<<97, 46, 112, 112, 116, 120>>,
     <<97, 46, 80, 112, 84, 120>>}

\* 'a.png', 'a.jpg', 'a.jpeg', 'a.JPEG', 'a.tiff', 'a.bmp', 'a.BMP'
ImageNames ==
    {<<97, 46, 112, 110, 103>>,
     <<97, 46, 106, 112, 103>>,
     <<97, 46, 106, 112, 101, 103>>,
     <<97, 46, 74, 80, 69, 71>>,
     <<97, 46, 116, 105, 102, 102>>,
     <<97, 46, 98, 109, 112>>,
     <<97, 46, 66, 77, 80>>}

\* 'a.txt', 'a.TXT', 'a.md', 'a.doc', 'a.pdf.txt', 'a', '.pdf', 'a.pdfx'
OtherNames ==
    {<<97, 46, 116, 120, 116>>,
     <<97, 46, 84, 88, 84>>,
     <<97, 46, 109, 100>>,
     <<97, 46, 100, 111, 99>>,
     <<97, 46, 112, 100, 102, 46, 116, 120, 116>>,
     <<97>>,
     <<46, 112, 100, 102>>,
     <<97, 46, 112, 100, 102, 120>>}

Names == PdfNames \cup DocxNames \cup PptxNames \cup ImageNames \cup OtherNames

File(name, exists, body) == [name |-> name, exists |-> exists, size |-> 1, body |-> body]

\* every name with no file behind it; every name that is not of a supported
\* format with a file behind it; every name of a supported format with a file
\* of that format of at most one unit, and the first name of each format
\* with every file of that format of at most MaxUnits units, and with the
\* long DOCX
Files ==
    {File(n, FALSE, NoBody) : n \in Names}
        \cup {File(n, TRUE, NoBody) : n \in OtherNames}
        \cup {File(n, TRUE, b) : n \in PdfNames, b \in PdfBodies(1)}
        \cup {File(n, TRUE, b) : n \in DocxNames, b \in DocxBodies(1)}
        \cup {File(n, TRUE, b) : n \in PptxNames, b \in PptxBodies(2)}
        \cup {File(n, TRUE, b) : n \in ImageNames, b \in ImageBodies(1)}
        \cup {File(<<97, 46, 112, 100, 102>>, TRUE, b) : b \in PdfBodies(MaxUnits)}
        \cup {File(<<97, 46, 100, 111, 99, 120>>, TRUE, b) : b \in DocxBodies(MaxUnits)}
        \cup {File(<<97, 46, 100, 111, 99, 120>>, TRUE, LongDocx)}
        \cup {File(<<97, 46, 112, 112, 116, 120>>, TRUE, b) : b \in PptxBodies(MaxUnits)}
        \cup {File(<<97, 46, 112, 110, 103>>, TRUE, b) : b \in ImageBodies(MaxUnits)}

(***************************************************************************)
(* The texts the classifier is run on: every text of up to MaxTextLen      *)
(* characters over one character of each script and a space; one run per   *)
(* script, up to MaxBlockLen characters in all; and one character at and   *)
(* around each end of each counted range, alone or after a Latin letter.   *)
(***************************************************************************)
\* a, Arabic ain, Devanagari ka, CJK zhong, space
LangAlphabet == {97, 1593, 2325, 20013, 32}

RangeEdgeChars ==
    {64, 65, 90, 91, 96, 97, 122, 123, 233,
     1535, 1536, 1791, 1792, 2303, 2304, 2431, 2432,
     19967, 19968, 40959, 40960}

BlockTexts ==
    {Rep(97, l) \o Rep(1593, a) \o Rep(2325, d) \o Rep(20013, z) :
        <<l, a, d, z>> \in {q \in (0..MaxBlockLen) \X (0..MaxBlockLen) \X
                                  (0..MaxBlockLen) \X (0..MaxBlockLen) :
                               q[1] + q[2] + q[3] + q[4] <= MaxBlockLen}}

LangTexts ==
    SeqsUpTo(LangAlphabet, MaxTextLen)
        \cup BlockTexts
        \cup {<<c>> : c \in RangeEdgeChars}
        \cup {<<97, c>> : c \in RangeEdgeChars}

(***************************************************************************)
(* The script classifier alone: a text is given, the classifier is run on  *)
(* it.                                                                     *)
(***************************************************************************)
InitLang ==
    /\ call \in {[op |-> "_detect_language", text |-> text] : text \in LangTexts}
    /\ ret = NoRet
    /\ trace = <<>>
    /\ proc = NoProc
    /\ mgr = NoMgr
    /\ NoRequests

\* one call of DocumentProcessor._detect_language
DetectLanguageCall ==
    /\ call.op = "_detect_language"
    /\ ret = NoRet
    /\ ret' = [kind |-> "value", value |-> _detect_language(call.text)]
    /\ UNCHANGED <<call, trace, proc, mgr, running, tasks>>

NextLang == DetectLanguageCall

SpecLang == InitLang /\ [][NextLang]_vars

(***************************************************************************)
(* The document processor: a caller gives it one file after another.       *)
(***************************************************************************)
\* DocumentProcessor.__init__: the layout model is there or not
Processors ==
    {[state |-> "ready", layout_model |-> b, supported_formats |-> supported_formats] :
        b \in BOOLEAN}

InitDoc ==
    /\ Idle
    /\ proc \in Processors
    /\ mgr = NoMgr
    /\ NoRequests

\* one call of DocumentProcessor.process_document
ProcessDocumentCall ==
    /\ Idle
    /\ \E file \in Files :
        LET out == process_document(proc, file)
        IN  /\ call' = [op |-> "process_document", file |-> file]
            /\ ret' = out.ret
            /\ trace' = out.trace
    /\ UNCHANGED <<proc, mgr, running, tasks>>

\* the caller is done with the result of the call
Discard ==
    /\ ~Idle
    /\ call' = NoCall
    /\ ret' = NoRet
    /\ trace' = <<>>
    /\ UNCHANGED <<proc, mgr, running, tasks>>

\* one call of DocumentProcessor.get_document_stats, on the document that
\* process_document has just returned
GetDocumentStatsCall ==
    /\ call.op = "process_document"
    /\ ret.kind = "doc"
    /\ LET out == get_document_stats(ret)
       IN  /\ call' = [op |-> "get_document_stats", document |-> ret,
                       document_after |-> out.document]
           /\ ret' = out.ret
           /\ trace' = <<>>
    /\ UNCHANGED <<proc, mgr, running, tasks>>

NextDoc == ProcessDocumentCall \/ GetDocumentStatsCall \/ Discard

SpecDoc == InitDoc /\ [][NextDoc]_vars

(***************************************************************************)
(* The AI model manager: it is constructed, then a caller makes one call   *)
(* after another.                                                          *)
(***************************************************************************)
\* the text of n characters whose i-th character is the code point i
Text(n) == [i \in 1..n |-> i]

\* the lengths of the texts: none, one character, and at and just over each
\* whole number of chunks
TextLens ==
    {0, 1} \cup {k * 1000 + d : k \in 1..MaxChunks, d \in {0, 1}}

\* what a call of the summarization pipeline does: it fails, or it gives a
\* summary of 149 or of 150 characters
SummarizerOutcomes == {[ok |-> FALSE]} \cup {[ok |-> TRUE, len |-> l] : l \in {149, 150}}

\* the caller's max_length, min_length and language: the defaults, and small
\* lengths with another language
SummaryArgs == {<<150, 50, "en">>, <<2, 1, "hi">>}

\* what the pipeline may do over one call of summarize_text: one outcome for
\* each call that summarize_text makes of the pipeline, and no more
RECURSIVE SummarizeOracles(_, _, _, _, _, _)
SummarizeOracles(m, text, max_length, min_length, language, given) ==
    IF summarize_text(m, text, max_length, min_length, language, given).st = "starved"
    THEN UNION {SummarizeOracles(m, text, max_length, min_length, language,
                                 Append(given, o)) : o \in SummarizerOutcomes}
    ELSE {given}

\* the lengths of the contexts: none, one character, the window size, and
\* one character over each whole number of strides from the window size on
ContextLens == {0, 1, 2000} \cup {k * 1000 + 1 : k \in 2..MaxChunks}

\* the caller's question and language
QuestionArgs == {<<<<81>>, "en">>, <<<<81, 63>>, "hi">>}

\* what a call of the question-answering pipeline does: it fails, or it
\* gives an answer with a score of 0.0, 0.3 or 0.9
QAOutcomes == {[ok |-> FALSE]} \cup {[ok |-> TRUE, score |-> sc] : sc \in {0, 30, 90}}

\* one outcome for each call that answer_question makes of the pipeline
RECURSIVE AnswerOracles(_, _, _, _, _)
AnswerOracles(m, question, context, language, given) ==
    IF answer_question(m, question, context, language, given).st = "starved"
    THEN UNION {AnswerOracles(m, question, context, language, Append(given, o)) :
                    o \in QAOutcomes}
    ELSE {given}

\* the texts given to detect_language: a Latin letter, a space, Cyrillic
\* small and capital ya, two CJK characters (one of the four of line 282,
\* one not), n with tilde, a with grave
DetectAlphabet == {97, 32, 1103, 1071, 20013, 23383, 241, 224}

DetectTexts == SeqsUpTo(DetectAlphabet, MaxDetectLen)

\* what the language detector does: it fails, or it gives no label, or 'FR'
DetectorOutcomes ==
    {[ok |-> FALSE], [ok |-> TRUE, labels |-> <<>>], [ok |-> TRUE, labels |-> <<<<70, 82>>>>]}

RECURSIVE DetectOracles(_, _, _)
DetectOracles(m, text, given) ==
    IF detect_language(m, text, given).st = "starved"
    THEN UNION {DetectOracles(m, text, Append(given, o)) : o \in DetectorOutcomes}
    ELSE {given}

\* the lengths of the texts given to analyze_sentiment
SentimentLens == {0, 1, 500, 501}

\* what the classifier does: it fails, or it gives a label and a score
ClassifierOutcomes ==
    {[ok |-> FALSE]} \cup
    {[ok |-> TRUE, label |-> l[1], score |-> l[2]] :
        l \in {<<"positive", 90>>, <<"negative", 60>>, <<"neutral", 0>>}}

RECURSIVE SentimentOracles(_, _, _)
SentimentOracles(m, text, given) ==
    IF analyze_sentiment(m, text, given).st = "starved"
    THEN UNION {SentimentOracles(m, text, Append(given, o)) : o \in ClassifierOutcomes}
    ELSE {given}

\* the texts given to extract_key_phrases: short ones over a letter and a
\* full stop, some with spaces, and one of more than 50 characters
KeyTexts ==
    SeqsUpTo({97, 46}, MaxPhraseLen)
        \cup {<<32>>, <<97, 46, 32>>, <<97, 46, 32, 97>>, Rep(97, 51)}

TopKs == {0, 1, 2, 5}

\* the mean scores of up to MaxFeatures features
ScoreVectors == UNION {[1..n -> {0, 10}] : n \in 1..MaxFeatures}

\* what np.argsort may give for the scores: any order of the 0-based indices
\* in which the scores ascend
ArgSorts(scores) ==
    LET n == Len(scores)
    IN  {p \in [1..n -> 0..(n - 1)] :
            /\ \A i, j \in 1..n : i # j => p[i] # p[j]
            /\ \A i, j \in 1..n : i < j => scores[p[i] + 1] <= scores[p[j] + 1]}

\* what the vectorizer does: it fails, or it finds features with scores
VectorizerOutcomes ==
    {[ok |-> FALSE]} \cup
    {[ok |-> TRUE, mean_scores |-> sc[1], argsort |-> sc[2]] :
        sc \in UNION {{<<v, p>> : p \in ArgSorts(v)} : v \in ScoreVectors}}

RECURSIVE KeyPhraseOracles(_, _, _)
KeyPhraseOracles(text, top_k, given) ==
    IF extract_key_phrases(text, top_k, given).st = "starved"
    THEN UNION {KeyPhraseOracles(text, top_k, Append(given, o)) : o \in VectorizerOutcomes}
    ELSE {given}

InitAI ==
    /\ Idle
    /\ proc = NoProc
    /\ mgr = NoMgr
    /\ NoRequests

\* AIModelManager.__init__
Construct ==
    /\ Idle
    /\ mgr = NoMgr
    /\ \E loads \in [{"embedding", "summarizer", "qa", "classifier"} -> BOOLEAN] :
        LET out == _load_models(loads)
        IN  /\ call' = [op |-> "__init__", loads |-> loads]
            /\ mgr' = out.mgr
            /\ ret' = out.ret
            /\ trace' = out.trace
    /\ UNCHANGED <<proc, running, tasks>>

\* one call of AIModelManager.summarize_text
SummarizeTextCall ==
    /\ Idle
    /\ mgr.state = "ready"
    /\ \E n \in TextLens, args \in SummaryArgs :
        \E oracle \in SummarizeOracles(mgr, Text(n), args[1], args[2], args[3], <<>>) :
            LET out == summarize_text(mgr, Text(n), args[1], args[2], args[3], oracle)
            IN  /\ call' = [op |-> "summarize_text", text |-> Text(n),
                            max_length |-> args[1], min_length |-> args[2],
                            language |-> args[3], oracle |-> oracle]
                /\ ret' = out.ret
                /\ trace' = out.trace
    /\ UNCHANGED <<proc, mgr, running, tasks>>

\* one call of AIModelManager.answer_question
AnswerQuestionCall ==
    /\ Idle
    /\ mgr.state = "ready"
    /\ \E args \in QuestionArgs, n \in ContextLens :
        \E oracle \in AnswerOracles(mgr, args[1], Text(n), args[2], <<>>) :
            LET out == answer_question(mgr, args[1], Text(n), args[2], oracle)
            IN  /\ call' = [op |-> "answer_question", question |-> args[1],
                            context |-> Text(n), language |-> args[2],
                            oracle |-> oracle]
                /\ ret' = out.ret
                /\ trace' = out.trace
    /\ UNCHANGED <<proc, mgr, running, tasks>>

\* one call of AIModelManager.detect_language
DetectLanguageAICall ==
    /\ Idle
    /\ mgr.state = "ready"
    /\ \E text \in DetectTexts :
        \E oracle \in DetectOracles(mgr, text, <<>>) :
            LET out == detect_language(mgr, text, oracle)
            IN  /\ call' = [op |-> "detect_language", text |-> text, oracle |-> oracle]
                /\ ret' = out.ret
                /\ trace' = out.trace
    /\ UNCHANGED <<proc, mgr, running, tasks>>

\* one call of AIModelManager.analyze_sentiment
AnalyzeSentimentCall ==
    /\ Idle
    /\ mgr.state = "ready"
    /\ \E n \in SentimentLens :
        \E oracle \in SentimentOracles(mgr, Text(n), <<>>) :
            LET out == analyze_sentiment(mgr, Text(n), oracle)
            IN  /\ call' = [op |-> "analyze_sentiment", text |-> Text(n),
                            oracle |-> oracle]
                /\ ret' = out.ret
                /\ trace' = out.trace
    /\ UNCHANGED <<proc, mgr, running, tasks>>

\* one call of AIModelManager.extract_key_phrases
ExtractKeyPhrasesCall ==
    /\ Idle
    /\ mgr.state = "ready"
    /\ \E text \in KeyTexts, top_k \in TopKs :
        \E oracle \in KeyPhraseOracles(text, top_k, <<>>) :
            LET out == extract_key_phrases(text, top_k, oracle)
            IN  /\ call' = [op |-> "extract_key_phrases", text |-> text,
                            top_k |-> top_k, oracle |-> oracle]
                /\ ret' = out.ret
                /\ trace' = out.trace
    /\ UNCHANGED <<proc, mgr, running, tasks>>

NextAI ==
    \/ Construct
    \/ SummarizeTextCall
    \/ AnswerQuestionCall
    \/ DetectLanguageAICall
    \/ AnalyzeSentimentCall
    \/ ExtractKeyPhrasesCall
    \/ Discard

SpecAI == InitAI /\ [][NextAI]_vars

(***************************************************************************)
(* The analyzer run on elements as the processor makes them: each element  *)
(* carries the tag _detect_language gave its text.                         *)
(***************************************************************************)
\* two Arabic letters, a Devanagari letter, a CJK ideograph, 'a.', ' '
AnalysisTexts == {<<1593, 1593>>, <<2309>>, <<23383>>, <<97, 46>>, <<32>>}

\* a paragraph of a DOCX with the text, or a table of blank cells
AnalysisElement(text) ==
    DocumentElement(text, 1, IF strip(text) # <<>> THEN "paragraph" ELSE "table",
                    <<0, 0, 500, 30>>, 100, _detect_language(text), {})

AnalysisElements == SeqsUpTo({AnalysisElement(t) : t \in AnalysisTexts}, MaxElements)

RECURSIVE AnalysisOracles(_, _, _)
AnalysisOracles(m, elements, given) ==
    LET out == analyze_document_structure(m, elements, given)
    IN  IF out.st # "starved" THEN {given}
        ELSE IF out.need = "topics"
        THEN UNION {AnalysisOracles(m, elements,
                                    [given EXCEPT !.topics = Append(@, o)]) :
                    o \in VectorizerOutcomes}
        ELSE UNION {AnalysisOracles(m, elements,
                                    [given EXCEPT !.sentiment = Append(@, o)]) :
                    o \in ClassifierOutcomes}

\* one call of DocumentAnalyzer.analyze_document_structure
AnalyzeDocumentStructureCall ==
    /\ Idle
    /\ mgr.state = "ready"
    /\ \E elements \in AnalysisElements :
        \E oracle \in AnalysisOracles(mgr, elements, [topics |-> <<>>, sentiment |-> <<>>]) :
            LET out == analyze_document_structure(mgr, elements, oracle)
            IN  /\ call' = [op |-> "analyze_document_structure", elements |-> elements,
                            oracle |-> oracle]
                /\ ret' = out.ret
                /\ trace' = out.trace
    /\ UNCHANGED <<proc, mgr, running, tasks>>

NextAnalyzer ==
    \/ Construct
    \/ AnalyzeDocumentStructureCall
    \/ Discard

SpecAnalyzer == InitAI /\ [][NextAnalyzer]_vars

(***************************************************************************)
(* Requests in flight on one asyncio event loop.  A request is a coroutine *)
(* of the manager; the loop thread runs one coroutine at a time, from one  *)
(* await that suspends to the next.                                        *)
(***************************************************************************)
\* the coroutine hands its model call to the executor and awaits it: only
\* generate_embeddings does (lines 118-123); summarize_text and
\* answer_question call the pipeline in the coroutine itself
awaits_executor(op) == op = "generate_embeddings"

\* a request not yet started: its coroutine, and the number of model calls
\* its input needs
Request(op, calls) ==
    [op |-> op, calls |-> calls, pc |-> "ready", left |-> calls, thread |-> "none"]

\* the requests: a summarization or an answer of one call or of one call per
\* chunk, an embedding
Requests ==
    {Request(op, n) : op \in {"summarize_text", "answer_question"}, n \in 1..MaxChunks}
        \cup {Request("generate_embeddings", 1)}

InitLoop ==
    /\ call = NoCall
    /\ ret = NoRet
    /\ trace = <<>>
    /\ proc = NoProc
    /\ mgr = _load_models([x \in {"embedding", "summarizer", "qa", "classifier"} |-> TRUE]).mgr
    /\ running = 0
    /\ tasks \in [1..MaxRequests -> Requests]

\* the loop thread, free, starts the coroutine of request t: the coroutine
\* runs to its model call, which it makes itself or hands to the executor
StartRequest(t) ==
    /\ running = 0
    /\ tasks[t].pc = "ready"
    /\ IF awaits_executor(tasks[t].op)
       THEN /\ tasks' = [tasks EXCEPT ![t].pc = "inference", ![t].thread = "worker"]
            /\ running' = 0
       ELSE /\ tasks' = [tasks EXCEPT ![t].pc = "inference", ![t].thread = "loop"]
            /\ running' = t
    /\ UNCHANGED <<call, ret, trace, proc, mgr>>

\* a model call made in the coroutine returns: the coroutine goes on to its
\* next call, or returns its response and the loop thread is free
CallReturnsInCoroutine(t) ==
    /\ tasks[t].pc = "inference"
    /\ tasks[t].thread = "loop"
    /\ running = t
    /\ IF tasks[t].left > 1
       THEN /\ tasks' = [tasks EXCEPT ![t].left = @ - 1]
            /\ running' = t
       ELSE /\ tasks' = [tasks EXCEPT ![t].left = 0, ![t].pc = "done",
                                      ![t].thread = "none"]
            /\ running' = 0
    /\ UNCHANGED <<call, ret, trace, proc, mgr>>

\* a model call run by the executor returns: the coroutine can be resumed
CallReturnsInExecutor(t) ==
    /\ tasks[t].pc = "inference"
    /\ tasks[t].thread = "worker"
    /\ tasks' = [tasks EXCEPT ![t].left = 0, ![t].pc = "resumable",
                              ![t].thread = "none"]
    /\ UNCHANGED <<call, ret, trace, proc, mgr, running>>

\* the loop thread, free, resumes the coroutine after its await: it returns
ResumeRequest(t) ==
    /\ running = 0
    /\ tasks[t].pc = "resumable"
    /\ tasks' = [tasks EXCEPT ![t].pc = "done"]
    /\ UNCHANGED <<call, ret, trace, proc, mgr, running>>

\* the loop thread starts some request
StartSomeRequest == \E t \in DOMAIN tasks : StartRequest(t)

\* a model call of some request returns in its coroutine
SomeCallReturnsInCoroutine == \E t \in DOMAIN tasks : CallReturnsInCoroutine(t)

\* a model call of some request returns in the executor
SomeCallReturnsInExecutor == \E t \in DOMAIN tasks : CallReturnsInExecutor(t)

\* the loop thread resumes some request
ResumeSomeRequest == \E t \in DOMAIN tasks : ResumeRequest(t)

NextLoop ==
    \/ StartSomeRequest
    \/ SomeCallReturnsInCoroutine
    \/ SomeCallReturnsInExecutor
    \/ ResumeSomeRequest

SpecLoop == InitLoop /\ [][NextLoop]_vars

(***************************************************************************)
(* Claims.                                                                 *)
(***************************************************************************)
\* the extractor that owns the format a file name stands for
OwnerOf(name) ==
    IF name \in PdfNames THEN "_process_pdf"
    ELSE IF name \in DocxNames THEN "_process_docx"
    ELSE IF name \in PptxNames THEN "_process_pptx"
    ELSE "_process_image"

\* the extractors trace t shows as invoked, in order
ExtractorsRun(t) == SelectSeq(t, LAMBDA x : "fn" \in DOMAIN x)

\* C1: process_document fails with the not-found error for a path that does
\* not exist and with the unsupported-format error for an existing path whose
\* extension, lower-cased, is outside the allow-list, in both cases without
\* running any extractor or reading the file and without returning a
\* document; for an existing path whose extension is in the allow-list in any
\* letter case, the extractor that owns the format runs, and no other.
C1_FailFastAndDispatch ==
    call.op = "process_document" =>
        /\ ~call.file.exists =>
              ret = Raise("FileNotFoundError", "File not found") /\ trace = <<>>
        /\ (call.file.exists /\ call.file.name \in OtherNames) =>
              ret = Raise("ValueError", "Unsupported format") /\ trace = <<>>
        /\ (call.file.exists /\ call.file.name \notin OtherNames) =>
              ExtractorsRun(trace) = <<[fn |-> OwnerOf(call.file.name)]>>

\* C1 witness: the existing file 'a.PDF' has gone to the PDF extractor, which
\* returned a document.
C1_Witness ==
    /\ call.op = "process_document"
    /\ call.file.exists
    /\ call.file.name = <<97, 46, 80, 68, 70>>
    /\ ExtractorsRun(trace) = <<[fn |-> "_process_pdf"]>>
    /\ ret.kind = "doc"

\* a step of the extraction of a file with this body fails
StepFails(body) ==
    CASE body.fmt = "pdf" ->
            ~body.open_ok \/ \E k \in DOMAIN body.pages : ~body.pages[k].ok
      [] body.fmt = "docx" ->
            \/ ~body.open_ok
            \/ \E k \in DOMAIN body.paragraphs : ~body.paragraphs[k].ok
            \/ \E k \in DOMAIN body.tables : ~body.tables[k].ok
      [] body.fmt = "pptx" ->
            \/ ~body.open_ok
            \/ \E k \in DOMAIN body.slides :
                  \E j \in DOMAIN body.slides[k] : ~body.slides[k][j].ok
      [] body.fmt = "image" -> ~body.imread_ok \/ ~body.readtext_ok
      [] OTHER -> FALSE

\* document doc has an element for every unit of the body that carries text
Complete(body, doc) ==
    LET E == {doc.elements[i] : i \in DOMAIN doc.elements}
    IN  CASE body.fmt = "pdf" ->
                /\ doc.total_pages = Len(body.pages)
                /\ \A k \in DOMAIN body.pages :
                      (\E i \in DOMAIN body.pages[k].text : body.pages[k].text[i] = 97)
                          => \E e \in E : e.page_number = k
          [] body.fmt = "docx" ->
                /\ \A k \in DOMAIN body.paragraphs :
                      (\E i \in DOMAIN body.paragraphs[k].text :
                            body.paragraphs[k].text[i] \notin {10, 32})
                          => \E e \in E : /\ e.text = body.paragraphs[k].text
                                          /\ e.bbox[2] = (k - 1) * 30
                /\ \A k \in DOMAIN body.tables :
                      body.tables[k].rows # <<>>
                          => \E e \in E : /\ e.element_type = "table"
                                          /\ e.bbox[2] = 1000 + (k - 1) * 100
          [] body.fmt = "pptx" ->
                /\ doc.total_pages = Len(body.slides)
                /\ \A k \in DOMAIN body.slides : \A j \in DOMAIN body.slides[k] :
                      (/\ body.slides[k][j].has_text
                       /\ \E i \in DOMAIN body.slides[k][j].text :
                             body.slides[k][j].text[i] \notin {10, 32})
                          => \E e \in E : /\ e.page_number = k
                                          /\ e.text = body.slides[k][j].text
          [] body.fmt = "image" ->
                \A k \in DOMAIN body.ocr_results :
                    (/\ body.ocr_results[k].confidence > 50
                     /\ \E i \in DOMAIN body.ocr_results[k].text :
                           body.ocr_results[k].text[i] \notin {10, 32})
                        => \E e \in E : e.confidence = body.ocr_results[k].confidence
          [] OTHER -> FALSE

\* C2: a call of process_document ends with a document or with one error
\* raised to the caller; when a step of the extraction fails it ends with the
\* error, so that no document is returned, and a document that is returned
\* has an element for every unit of the file that carries text.
C2_DocumentOrError ==
    call.op = "process_document" =>
        /\ ret.kind \in {"doc", "raise"}
        /\ StepFails(call.file.body) => ret.kind = "raise"
        /\ ret.kind = "doc" => /\ call.file.exists
                               /\ ~StepFails(call.file.body)
                               /\ Complete(call.file.body, ret)

\* C2 witness: a PDF whose first page gave text and whose second page failed
\* has ended with an error.
C2_Witness ==
    /\ call.op = "process_document"
    /\ call.file.body.fmt = "pdf"
    /\ call.file.body.open_ok
    /\ Len(call.file.body.pages) >= 2
    /\ call.file.body.pages[1].ok
    /\ call.file.body.pages[1].text = <<97>>
    /\ ~call.file.body.pages[2].ok
    /\ ret.kind = "raise"

\* the body with every unit that fails replaced by a unit of the same place
\* that carries nothing
WithoutFailedUnits(body) ==
    CASE body.fmt = "pdf" ->
            [body EXCEPT !.pages =
                [k \in DOMAIN body.pages |->
                    IF body.pages[k].ok THEN body.pages[k]
                    ELSE [ok |-> TRUE, text |-> <<>>]]]
      [] body.fmt = "docx" ->
            [body EXCEPT
                !.paragraphs =
                    [k \in DOMAIN body.paragraphs |->
                        IF body.paragraphs[k].ok THEN body.paragraphs[k]
                        ELSE [ok |-> TRUE, text |-> <<>>, style |-> "Normal"]],
                !.tables =
                    [k \in DOMAIN body.tables |->
                        IF body.tables[k].ok THEN body.tables[k]
                        ELSE [ok |-> TRUE, rows |-> <<>>]]]
      [] body.fmt = "pptx" ->
            [body EXCEPT !.slides =
                [k \in DOMAIN body.slides |->
                    [j \in DOMAIN body.slides[k] |->
                        IF body.slides[k][j].ok THEN body.slides[k][j]
                        ELSE [ok |-> TRUE, has_text |-> FALSE, text |-> <<>>,
                              left |-> 0, top |-> 0, width |-> 0, height |-> 0]]]]
      [] OTHER -> body

\* the file opens and one of its units (a page, a paragraph, a table, a
\* shape) fails
UnitFails(body) ==
    /\ body.fmt \in {"pdf", "docx", "pptx"}
    /\ body.open_ok
    /\ StepFails(body)

\* C3: a failure while decoding one unit (a PDF page, a PPTX shape, a DOCX
\* paragraph or table) is caught and that unit alone is skipped: the call
\* returns the document with the elements of every other unit, in order.
C3_FailedUnitSkipped ==
    (call.op = "process_document" /\ call.file.exists /\ UnitFails(call.file.body)) =>
        ret = process_document(
                  proc, [call.file EXCEPT !.body = WithoutFailedUnits(call.file.body)]).ret

\* 'a.txt', 'a.TXT', 'a.pdf.txt'
TxtNames ==
    {<<97, 46, 116, 120, 116>>, <<97, 46, 84, 88, 84>>,
     <<97, 46, 112, 100, 102, 46, 116, 120, 116>>}

\* C4: the allow-list includes plain text: for an existing file with the
\* extension .txt, process_document returns a document, not the
\* unsupported-format error.
C4_PlainTextAccepted ==
    (call.op = "process_document" /\ call.file.exists /\ call.file.name \in TxtNames) =>
        ret.kind = "doc"

\* the number of characters of text t whose code point is in the set S
NumIn(t, S) == Cardinality({i \in DOMAIN t : t[i] \in S})

AsciiLetters == (65..90) \cup (97..122)

ArabicRange == 1536..1791

DevanagariRange == 2304..2431

CJKRange == 19968..40959

Counted(t) ==
    NumIn(t, AsciiLetters) + NumIn(t, ArabicRange) + NumIn(t, DevanagariRange)
        + NumIn(t, CJKRange)

\* the tag the design gives text t: shares are of the counted characters, a
\* share counts when it is above 3/10, Arabic before Devanagari before CJK
ExpectedTag(t) ==
    IF Counted(t) = 0 THEN "unknown"
    ELSE IF 10 * NumIn(t, ArabicRange) > 3 * Counted(t) THEN "ar"
    ELSE IF 10 * NumIn(t, DevanagariRange) > 3 * Counted(t) THEN "hi"
    ELSE IF 10 * NumIn(t, CJKRange) > 3 * Counted(t) THEN "zh"
    ELSE "en"

\* C5: the script classifier returns "unknown" for a text with no character
\* in the four counted ranges (the empty text and white space included),
\* else "ar" if the Arabic share of the counted characters is above 0.3, else
\* "hi" if the Devanagari share is, else "zh" if the CJK share is, else "en":
\* the first threshold met wins, whatever the later shares.
C5_ClassifierByPriority ==
    (call.op = "_detect_language" /\ ret.kind = "value") =>
        /\ ret.value = ExpectedTag(call.text)
        /\ (\A i \in DOMAIN call.text : call.text[i] = 32) => ret.value = "unknown"

\* C5 witness: Arabic holds 4 of 10 counted characters, Devanagari 6 of 10,
\* and the classifier has answered "ar".
C5_Witness ==
    /\ call.op = "_detect_language"
    /\ ret.kind = "value"
    /\ Counted(call.text) = 10
    /\ NumIn(call.text, ArabicRange) = 4
    /\ NumIn(call.text, DevanagariRange) = 6
    /\ ret.value = "ar"

(***************************************************************************)
(* Claims about the AI model manager.                                      *)
(***************************************************************************)
\* the call in `call` found its primitive unavailable
PrimitiveUnavailable ==
    \/ call.op = "summarize_text" /\ ~mgr.summarizer
    \/ call.op = "answer_question" /\ ~mgr.qa_model
    \/ call.op = "analyze_sentiment" /\ ~mgr.classifier

\* the primitive was there and failed during the call
PrimitiveFailed ==
    /\ ~PrimitiveUnavailable
    /\ \E i \in DOMAIN call.oracle : ~call.oracle[i].ok

\* the highest score the pipeline gave during the call
BestScore == seq_max([i \in DOMAIN call.oracle |-> call.oracle[i].score])

\* C6: for every ModelResponse of summarize_text or answer_question, the
\* confidence is 0.0 if and only if the model was unavailable or an error
\* occurred: real inference never gives confidence 0.0, not even a QA answer
\* whose model score is 0.
C6_ZeroIffFallbackOrError ==
    (call.op \in {"summarize_text", "answer_question"} /\ ret.kind = "response") =>
        (ret.confidence = 0 <=> (PrimitiveUnavailable \/ PrimitiveFailed))

\* C6, as the code has it: a fallback or an error gives confidence 0.0; real
\* inference in summarize_text gives 0.8, so there 0.0 means fallback or
\* error and nothing else; real inference in answer_question gives the
\* highest score of the pipeline over its calls, which is 0.0 when no call
\* scored above 0.
C6_ZeroConfidence ==
    (call.op \in {"summarize_text", "answer_question"} /\ ret.kind = "response") =>
        /\ (PrimitiveUnavailable \/ PrimitiveFailed) => ret.confidence = 0
        /\ (call.op = "summarize_text" /\ ~PrimitiveUnavailable /\ ~PrimitiveFailed)
               => ret.confidence = 80
        /\ (call.op = "answer_question" /\ ~PrimitiveUnavailable /\ ~PrimitiveFailed)
               => ret.confidence = BestScore

\* C6 witness: the QA model answered every window of a long context with
\* score 0, and the response has confidence 0.0 with no fallback or error.
C6_Witness ==
    /\ call.op = "answer_question"
    /\ mgr.qa_model
    /\ Len(call.context) > 2000
    /\ Len(call.oracle) >= 3
    /\ \A i \in DOMAIN call.oracle : call.oracle[i].ok /\ call.oracle[i].score = 0
    /\ ret.kind = "response"
    /\ ret.confidence = 0
    /\ DOMAIN ret.metadata = {"question", "language"}

\* r carries the mark fallback = true
MarkedFallback(r) ==
    \/ "fallback" \in DOMAIN r /\ r.fallback = TRUE
    \/ /\ "metadata" \in DOMAIN r
       /\ "fallback" \in DOMAIN r.metadata
       /\ r.metadata.fallback = TRUE

\* the content of r is built from a non-empty start of the text, or the text
\* is empty
FromPreview(r, text) ==
    /\ "content" \in DOMAIN r
    /\ \E i \in DOMAIN r.content.args, k \in 1..Max(Len(text), 1) :
           r.content.args[i] = Slice(text, 0, k)

\* the text the call was made on
InputText ==
    IF call.op = "answer_question" THEN call.context ELSE call.text

\* C7: a call of summarize_text, answer_question or analyze_sentiment made
\* while its primitive is unavailable returns, without raising, a fallback
\* response with confidence 0.0 and metadata.fallback = true whose content
\* comes from a preview of the input text, and the primitive is not invoked.
C7_UnavailableGivesFallback ==
    (call.op \in {"summarize_text", "answer_question", "analyze_sentiment"}
        /\ PrimitiveUnavailable) =>
        /\ ret.kind \in {"response", "mapping"}
        /\ ret.confidence = 0
        /\ MarkedFallback(ret)
        /\ FromPreview(ret, InputText)
        /\ trace = <<>>

\* the models construction loads
Primitives == {"embedding", "summarizer", "qa", "classifier"}

\* C8: construction attempts to load all four primitives; it raises if and
\* only if the embedding primitive failed to load; the availability flag of
\* each primitive is its own load outcome, whatever the others did.
C8_FatalIffNoEmbedding ==
    call.op = "__init__" =>
        /\ Len(trace) = 4
        /\ {trace[i].model : i \in DOMAIN trace} = Primitives
        /\ ret.kind = "raise" <=> ~call.loads.embedding
        /\ ret.kind # "raise" => ret.kind = "constructed" /\ mgr.state = "ready"
        /\ \A x \in Primitives : mgr.models_loaded[x] = call.loads[x]
        /\ mgr.summarizer = call.loads.summarizer
        /\ mgr.qa_model = call.loads.qa
        /\ mgr.classifier = call.loads.classifier

\* C8 witness: the embedding model alone loaded, and the manager is
\* constructed with the three other primitives disabled.
C8_Witness ==
    /\ call.op = "__init__"
    /\ call.loads = [x \in Primitives |-> x = "embedding"]
    /\ ret.kind = "constructed"
    /\ mgr.models_loaded.embedding
    /\ ~mgr.models_loaded.summarizer /\ ~mgr.models_loaded.qa
    /\ ~mgr.models_loaded.classifier

\* t is a text
IsText(t) == DOMAIN t = 1..Len(t) /\ \A i \in DOMAIN t : t[i] \in Nat

\* r is what operation op is to give back, well formed
WellFormed(op, r) ==
    CASE op \in {"summarize_text", "answer_question"} ->
            /\ r.kind = "response"
            /\ DOMAIN r = {"kind", "content", "confidence", "metadata", "processing_time"}
            /\ r.confidence \in 0..100
      [] op = "detect_language" -> r.kind = "string" /\ IsText(r.value)
      [] op = "analyze_sentiment" ->
            /\ r.kind = "mapping"
            /\ {"sentiment", "confidence", "analysis"} \subseteq DOMAIN r
      [] op = "extract_key_phrases" ->
            /\ r.kind = "sequence"
            /\ \A i \in DOMAIN r.items : IsText(r.items[i])

InferenceOps ==
    {"summarize_text", "answer_question", "detect_language", "analyze_sentiment",
     "extract_key_phrases"}

\* C9: on a constructed manager, summarize_text, answer_question,
\* detect_language, analyze_sentiment and extract_key_phrases never raise,
\* whatever primitives are available and whether or not the primitive fails
\* during the call: each returns a well-formed ModelResponse, string, mapping
\* or sequence.
C9_NeverRaises ==
    call.op \in InferenceOps =>
        /\ ret.kind # "raise"
        /\ WellFormed(call.op, ret)

\* C9 witness: the classifier failed during analyze_sentiment and the caller
\* has a mapping.
C9_Witness ==
    /\ call.op = "analyze_sentiment"
    /\ mgr.classifier
    /\ call.oracle = <<[ok |-> FALSE]>>
    /\ ret.kind = "mapping"

\* the fields of a response and the keys of its metadata
Shape(r) == [fields |-> DOMAIN r, metadata |-> DOMAIN r.metadata]

\* a manager with every primitive loaded
FullManager == _load_models([x \in Primitives |-> TRUE]).mgr

\* responses of the chunked paths: a text of two chunks, a context of three
\* windows, each pipeline call succeeding, or the first one failing
ChunkedSummary(ok) ==
    summarize_text(FullManager, Text(1001), 150, 50, "en",
                   IF ok THEN <<[ok |-> TRUE, len |-> 10], [ok |-> TRUE, len |-> 10]>>
                   ELSE <<[ok |-> FALSE]>>).ret

ChunkedAnswer(ok) ==
    answer_question(FullManager, <<81>>, Text(2001), "en",
                    IF ok THEN <<[ok |-> TRUE, score |-> 30], [ok |-> TRUE, score |-> 30],
                                 [ok |-> TRUE, score |-> 30]>>
                    ELSE <<[ok |-> FALSE]>>).ret

\* C10: within budget (text of at most 1000 characters for summarize_text,
\* context of at most 2000 for answer_question) exactly one call of the
\* pipeline is made, with the caller's full length parameters, and the
\* response has the fields and the metadata keys of a response of the chunked
\* path.
C10_DirectWithinBudget ==
    /\ (call.op = "summarize_text" /\ mgr.summarizer /\ Len(call.text) <= 1000) =>
        /\ trace = <<SummarizerCall(call.text, call.max_length, call.min_length)>>
        /\ Shape(ret) = Shape(ChunkedSummary(call.oracle[1].ok))
    /\ (call.op = "answer_question" /\ mgr.qa_model /\ Len(call.context) <= 2000) =>
        /\ trace = <<QACall(call.question, call.context)>>
        /\ Shape(ret) = Shape(ChunkedAnswer(call.oracle[1].ok))

\* C10 witness: a text of exactly 1000 characters was summarized in one call
\* of the pipeline with the caller's lengths.
C10_Witness ==
    /\ call.op = "summarize_text"
    /\ mgr.summarizer
    /\ Len(call.text) = 1000
    /\ call.max_length = 150
    /\ Len(trace) = 1
    /\ trace[1].max_length = 150
    /\ ret.kind = "response"
    /\ ret.confidence = 80
    /\ Shape(ret) = Shape(ChunkedSummary(TRUE))

\* answer_question took the sliding-window path and no pipeline call failed
ChunkedAnswered ==
    /\ call.op = "answer_question"
    /\ mgr.qa_model
    /\ Len(call.context) > 2000
    /\ \A i \in DOMAIN call.oracle : call.oracle[i].ok

\* window k of the context: 2000 characters from offset 1000 * (k - 1)
Window(k) == Slice(call.context, 1000 * (k - 1), 1000 * (k - 1) + 2000)

\* the number of windows: one per started stride of 1000 characters
NumWindows == (Len(call.context) + 999) \div 1000

\* the earliest window whose score is the highest
EarliestBest ==
    CHOOSE k \in DOMAIN call.oracle :
        /\ call.oracle[k].score = BestScore
        /\ \A j \in 1..(k - 1) : call.oracle[j].score < BestScore

\* the pipeline ran once on every window, in order
EveryWindowRun ==
    /\ Len(trace) = NumWindows
    /\ \A k \in 1..NumWindows : trace[k] = QACall(call.question, Window(k))

\* the answer of the earliest best window
EarliestBestAnswer ==
    FString("{}", <<QAResult(Window(EarliestBest), call.oracle[EarliestBest]).answer>>)

\* C11: for a context longer than the window size, answer_question runs the
\* QA pipeline on every window and returns the answer of the window with the
\* highest score, with confidence the highest score over all windows; among
\* windows sharing the highest score the earliest one's answer is returned.
C11_BestWindowAnswer ==
    ChunkedAnswered =>
        /\ EveryWindowRun
        /\ ret.confidence = BestScore
        /\ ret.content = EarliestBestAnswer

\* C11, as the code has it: when no pipeline call fails, the pipeline runs on
\* every window and the confidence is the highest score; when that score is
\* above 0 the answer is that of the earliest window with the highest score,
\* and when every window scored 0 the content is 'No answer found' and not
\* the answer of any window.
C11_BestWindowAboveZero ==
    ChunkedAnswered =>
        /\ EveryWindowRun
        /\ ret.confidence = BestScore
        /\ BestScore > 0 => ret.content = EarliestBestAnswer
        /\ BestScore = 0 => ret.content = FString("No answer found", <<>>)

\* C11 witness: the second and third windows share the highest score 0.9, the
\* first scored 0.3, and the answer returned is the second window's.
C11_Witness ==
    /\ ChunkedAnswered
    /\ Len(call.oracle) >= 3
    /\ call.oracle[1].score = 30
    /\ call.oracle[2].score = 90
    /\ call.oracle[3].score = 90
    /\ ret.confidence = 90
    /\ ret.content = FString("{}", <<<<call.context[1001]>>>>)

\* C12: when no window of a chunked answer_question scores above zero, the
\* call returns, without raising, a fixed placeholder answer with confidence
\* 0.0 in a ModelResponse with the fields and the metadata keys of a normal
\* answer; the placeholder is the same whatever the question, the context and
\* the language.
C12_NoAnswerPlaceholder ==
    (ChunkedAnswered /\ BestScore = 0) =>
        /\ ret.kind = "response"
        /\ ret.content = FString("No answer found", <<>>)
        /\ ret.confidence = 0
        /\ Shape(ret) = Shape(ChunkedAnswer(TRUE))
        /\ ret.metadata = [question |-> call.question, language |-> call.language]

\* C12 witness: three windows of a context of 2001 characters all scored 0
\* and the placeholder came back for the second question.
C12_Witness ==
    /\ ChunkedAnswered
    /\ Len(call.context) = 2001
    /\ Len(trace) = 3
    /\ BestScore = 0
    /\ call.question = <<81, 63>>
    /\ ret.content = FString("No answer found", <<>>)
    /\ ret.confidence = 0

(***************************************************************************)
(* Claims about the elements of a document.                                *)
(***************************************************************************)
\* process_document has returned a document
DocumentReturned == call.op = "process_document" /\ ret.kind = "doc"

\* C13: every element of a PDF, DOCX or PPTX document has confidence exactly
\* 1.0, every element of an image carries the score the OCR engine gave its
\* region, and every confidence lies in [0, 1].
C13_ConfidenceBySource ==
    DocumentReturned =>
        \A i \in DOMAIN ret.elements :
            LET e == ret.elements[i]
            IN  /\ 0 <= e.confidence /\ e.confidence <= 100
                /\ ret.metadata.file_type \in {"pdf", "docx", "pptx"}
                       => e.confidence = 100
                /\ ret.metadata.file_type = "image"
                       => \E k \in DOMAIN call.file.body.ocr_results :
                              /\ call.file.body.ocr_results[k].text = e.text
                              /\ call.file.body.ocr_results[k].confidence = e.confidence

\* C14: every element of every document returned by process_document has a
\* text that is non-empty after trimming white space, the element of a DOCX
\* table whose cells are all empty included.
C14_TextNonEmpty ==
    DocumentReturned =>
        \A i \in DOMAIN ret.elements : strip(ret.elements[i].text) # <<>>

\* the text has a character that is not white space
NonBlank(t) == \E i \in DOMAIN t : t[i] \notin {9, 10, 11, 12, 13, 32}

\* the OCR regions of the image that are to become elements, in order
KeptRegions ==
    SelectSeq(call.file.body.ocr_results,
              LAMBDA r : r.confidence > 50 /\ NonBlank(r.text))

\* C15: an OCR region of an image becomes an element if and only if its
\* confidence is strictly above 0.5 and its text is non-blank; a kept region
\* is 'handwriting' if and only if its confidence is strictly below 0.8 and
\* 'text' otherwise.  So regions all above 0.8 give only 'text' elements, and
\* every element of an image has confidence above 0.5.
C15_OcrThresholds ==
    (DocumentReturned /\ ret.metadata.file_type = "image") =>
        /\ Len(ret.elements) = Len(KeptRegions)
        /\ \A i \in DOMAIN ret.elements :
              /\ ret.elements[i].text = KeptRegions[i].text
              /\ ret.elements[i].confidence = KeptRegions[i].confidence
              /\ ret.elements[i].confidence > 50
              /\ ret.elements[i].element_type \in {"handwriting", "text"}
              /\ ret.elements[i].element_type = "handwriting"
                     <=> KeptRegions[i].confidence < 80
        /\ (\A k \in DOMAIN call.file.body.ocr_results :
                call.file.body.ocr_results[k].confidence > 80)
               => \A i \in DOMAIN ret.elements : ret.elements[i].element_type = "text"

\* C15 witness: regions at 0.5, 0.79 and 0.8 gave a 'handwriting' element and
\* a 'text' element, the region at 0.5 none.
C15_Witness ==
    /\ DocumentReturned
    /\ ret.metadata.file_type = "image"
    /\ [k \in DOMAIN call.file.body.ocr_results |->
            call.file.body.ocr_results[k].confidence] = <<50, 79, 80>>
    /\ [i \in DOMAIN ret.elements |-> ret.elements[i].element_type]
           = <<"handwriting", "text">>

\* a DOCX document has been returned
DocxReturned == DocumentReturned /\ ret.metadata.file_type = "docx"

\* the elements of kind 'table', in order
TableElements == SelectSeq(ret.elements, LAMBDA e : e.element_type = "table")

\* the text of a table: rows joined by newline, cells by " | "
TableText(table) ==
    join(<<10>>, [r \in DOMAIN table.rows |-> join(<<32, 124, 32>>, table.rows[r])])

\* the text "A | B\nC | D"
TwoByTwoText == <<65, 32, 124, 32, 66, 10, 67, 32, 124, 32, 68>>

\* the 2x2 table with cells A, B, C, D
TwoByTwo == [ok |-> TRUE, rows |-> << << <<65>>, <<66>> >>, << <<67>>, <<68>> >> >>]

\* table elements i are the tables ts, one for one, serialized, on page 1,
\* and no paragraph or heading comes after a table element
TablesSerialized(ts) ==
    /\ Len(TableElements) = Len(ts)
    /\ \A i \in DOMAIN ts :
          /\ TableElements[i].text = TableText(ts[i])
          /\ TableElements[i].page_number = 1
          /\ ts[i] = TwoByTwo => TableElements[i].text = TwoByTwoText
    /\ \A i, j \in DOMAIN ret.elements :
          (i < j /\ ret.elements[i].element_type = "table")
              => ret.elements[j].element_type = "table"

\* C16: for a DOCX file, each table yields exactly one element of kind
\* 'table' on page 1 whose text is the rows joined by newline, each row its
\* cell texts joined by " | " in order (a 2x2 table A, B, C, D gives
\* "A | B\nC | D"), and table elements follow all paragraphs and headings.
C16_OneElementPerTable ==
    DocxReturned => TablesSerialized(call.file.body.tables)

\* C16, as the code has it: the same for each table that has at least one
\* row; a table without rows yields no element.
C16_OneElementPerTableWithRows ==
    DocxReturned =>
        TablesSerialized(SelectSeq(call.file.body.tables, LAMBDA t : t.rows # <<>>))

\* C16 witness: a paragraph and then the 2x2 table A, B, C, D, serialized as
\* the second element.
C16_Witness ==
    /\ DocxReturned
    /\ Len(call.file.body.paragraphs) = 1
    /\ call.file.body.tables = <<TwoByTwo>>
    /\ Len(ret.elements) = 2
    /\ ret.elements[1].element_type = "paragraph"
    /\ ret.elements[2].element_type = "table"
    /\ ret.elements[2].text = TwoByTwoText

\* t from index i on, with the line feeds at its start dropped
RECURSIVE AfterLineFeeds(_, _)
AfterLineFeeds(t, i) ==
    IF i <= Len(t) /\ t[i] = 10 THEN AfterLineFeeds(t, i + 1) ELSE i

\* the blocks of t from index i on, cur being the block in progress: a block
\* ends where two or more line feeds follow one another
RECURSIVE BlocksFrom(_, _, _)
BlocksFrom(t, i, cur) ==
    IF i > Len(t) THEN <<cur>>
    ELSE IF t[i] = 10 /\ i < Len(t) /\ t[i + 1] = 10
    THEN <<cur>> \o BlocksFrom(t, AfterLineFeeds(t, i), <<>>)
    ELSE BlocksFrom(t, i + 1, Append(cur, t[i]))

\* the non-blank blocks of a page text, in order
NonBlankBlocks(t) == SelectSeq(BlocksFrom(t, 1, <<>>), NonBlank)

\* the elements of page k, in order
ElementsOfPage(k) == SelectSeq(ret.elements, LAMBDA e : e.page_number = k)

\* C17: for a PDF, total_pages is the number of physical pages, pages without
\* text included, and each page gives exactly one element per non-blank block
\* of its text split on blank lines, in block order, each of kind 'paragraph'
\* with the page's 1-based number; a PDF of 3 pages has total_pages 3.
C17_PdfPagesAndBlocks ==
    (DocumentReturned /\ ret.metadata.file_type = "pdf") =>
        LET pages == call.file.body.pages
        IN  /\ ret.total_pages = Len(pages)
            /\ Len(pages) = 3 => ret.total_pages = 3
            /\ \A i \in DOMAIN ret.elements :
                  /\ ret.elements[i].element_type = "paragraph"
                  /\ ret.elements[i].page_number \in DOMAIN pages
            /\ \A i, j \in DOMAIN ret.elements :
                  i < j => ret.elements[i].page_number <= ret.elements[j].page_number
            /\ \A k \in DOMAIN pages :
                  LET blocks == NonBlankBlocks(pages[k].text)
                  IN  /\ Len(ElementsOfPage(k)) = Len(blocks)
                      /\ \A b \in DOMAIN blocks :
                            ElementsOfPage(k)[b].text = strip(blocks[b])

\* C17 witness: a PDF of three pages, the first with two blocks, the second
\* without text, the third with one block: total_pages is 3, three elements.
C17_Witness ==
    /\ DocumentReturned
    /\ ret.metadata.file_type = "pdf"
    /\ [k \in DOMAIN call.file.body.pages |-> call.file.body.pages[k].text]
           = << <<97, 10, 10, 97>>, <<32>>, <<97>> >>
    /\ ret.total_pages = 3
    /\ [i \in DOMAIN ret.elements |-> ret.elements[i].page_number] = <<1, 1, 3>>

(***************************************************************************)
(* Claims about the statistics.                                            *)
(***************************************************************************)
\* the sum of f over 1..n
RECURSIVE SumTo(_, _)
SumTo(f, n) == IF n = 0 THEN 0 ELSE f[n] + SumTo(f, n - 1)

\* C18: get_document_stats never faults and returns total_elements equal to
\* the number of elements, per-kind counts that count each element exactly
\* once, total_text_length equal to the sum of the text lengths, and a mean
\* confidence equal to the sum of the confidences divided by the number of
\* elements, or 0 when there are none; the document is left unchanged.
C18_StatsOfDocument ==
    call.op = "get_document_stats" =>
        LET es == call.document.elements
            n == Len(es)
            kinds == {es[i].element_type : i \in DOMAIN es}
        IN  /\ ret.kind = "stats"
            /\ ret.total_elements = n
            /\ DOMAIN ret.element_types = kinds
            /\ \A t \in kinds :
                  ret.element_types[t]
                      = Cardinality({i \in DOMAIN es : es[i].element_type = t})
            /\ ret.total_text_length = SumTo([i \in DOMAIN es |-> Len(es[i].text)], n)
            /\ ret.avg_confidence.den > 0
            /\ n > 0 => ret.avg_confidence.num * n
                            = SumTo([i \in DOMAIN es |-> es[i].confidence], n)
                                  * ret.avg_confidence.den
            /\ n = 0 => ret.avg_confidence.num = 0
            /\ call.document_after = call.document

\* C18 witness: the statistics of an image document with a 'handwriting'
\* element at 0.79 and a 'text' element at 0.8: mean confidence 1.59 / 2.
C18_Witness ==
    /\ call.op = "get_document_stats"
    /\ ret.kind = "stats"
    /\ ret.total_elements = 2
    /\ ret.element_types = [t \in {"handwriting", "text"} |-> 1]
    /\ ret.avg_confidence = [num |-> 159, den |-> 2]
    /\ ret.total_text_length = 2

(***************************************************************************)
(* Claims about the event loop.                                            *)
(***************************************************************************)
\* request u is waiting for the loop thread
Schedulable(u) == tasks[u].pc \in {"ready", "resumable"}

\* C19: the inference calls of summarize_text and answer_question run off
\* the event loop: while a request is inside an inference call, the whole
\* chunk loop of a long input included, another request in flight on the
\* same loop can still be scheduled and make progress.
C19_InferenceOffLoop ==
    \A t \in DOMAIN tasks :
        (tasks[t].op \in {"summarize_text", "answer_question"}
            /\ tasks[t].pc = "inference") =>
            /\ tasks[t].thread = "worker"
            /\ \A u \in DOMAIN tasks \ {t} :
                  Schedulable(u) => ENABLED (StartRequest(u) \/ ResumeRequest(u))

(***************************************************************************)
(* Claims about the key phrases.                                           *)
(***************************************************************************)
\* character i of t is the first non-blank character of a sentence: no
\* terminal punctuation and no other non-blank character lies between the
\* previous '.', '!' or '?' (or the start) and it
StartsSentence(t, i) ==
    /\ t[i] \notin {46, 33, 63}
    /\ NonBlank(<<t[i]>>)
    /\ \A j \in 1..(i - 1) :
          (\A k \in j..(i - 1) : t[k] \notin {46, 33, 63}) => ~NonBlank(<<t[j]>>)

\* the number of non-blank sentences of t
NumSentences(t) == Cardinality({i \in DOMAIN t : StartsSentence(t, i)})

\* C20: extract_key_phrases gives an empty sequence for every text that
\* splits on '.', '!' and '?' into fewer than two non-blank sentences.
C20_TwoSentencesNeeded ==
    (call.op = "extract_key_phrases" /\ NumSentences(call.text) < 2) =>
        ret.kind = "sequence" /\ ret.items = <<>>

(***************************************************************************)
(* Claims about chunked summarization.                                     *)
(***************************************************************************)
\* summarize_text took the chunked path
ChunkedSummarize ==
    /\ call.op = "summarize_text"
    /\ mgr.summarizer
    /\ Len(call.text) > 1000

\* the number of chunks: ceil(len / 1000)
NumChunks == (Len(call.text) + 999) \div 1000

\* chunk k: the characters 1000 * (k - 1) + 1 .. 1000 * k of the text
Chunk(k) ==
    [i \in 1..(IF k < NumChunks THEN 1000 ELSE Len(call.text) - 1000 * (NumChunks - 1))
        |-> call.text[1000 * (k - 1) + i]]

\* the chunks 1..k one after the other
RECURSIVE ChunksJoined(_)
ChunksJoined(k) == IF k = 0 THEN <<>> ELSE ChunksJoined(k - 1) \o Chunk(k)

\* the first N pipeline calls succeeded
ChunkCallsSucceeded ==
    /\ Len(call.oracle) >= NumChunks
    /\ \A k \in 1..NumChunks : call.oracle[k].ok

\* C21: for a text longer than 1000 characters, summarize_text splits it
\* into N = ceil(len / 1000) consecutive non-overlapping chunks of 1000
\* characters (the last possibly shorter) whose concatenation is the text,
\* and summarizes each chunk once, in order, with the lengths max_length div
\* N and min_length div N (up to the first call that fails, if one does).
C21_ChunksInOrder ==
    ChunkedSummarize =>
        /\ ChunksJoined(NumChunks) = call.text
        /\ \A k \in 1..(NumChunks - 1) : Len(Chunk(k)) = 1000
        /\ Len(Chunk(NumChunks)) \in 1..1000
        /\ \A k \in 1..Min(NumChunks, Len(trace)) :
              trace[k] = SummarizerCall(Chunk(k), call.max_length \div NumChunks,
                                        call.min_length \div NumChunks)
        /\ Len(trace) = Len(call.oracle)
        /\ ChunkCallsSucceeded => Len(trace) >= NumChunks
        /\ ~ChunkCallsSucceeded => Len(trace) <= NumChunks /\ ~call.oracle[Len(trace)].ok

\* C21 witness: a text of 2001 characters was summarized as chunks of 1000,
\* 1000 and 1 characters, each with max_length 150 div 3, before the pass
\* over the joined summaries.
C21_Witness ==
    /\ ChunkedSummarize
    /\ Len(call.text) = 2001
    /\ call.max_length = 150
    /\ ChunkCallsSucceeded
    /\ Len(trace) = 4
    /\ [k \in 1..3 |-> Len(trace[k].text)] = <<1000, 1000, 1>>
    /\ \A k \in 1..3 : trace[k].max_length = 50
    /\ ret.confidence = 80

\* the summaries of the chunks 1..k joined with single spaces
RECURSIVE JoinedSummaries(_)
JoinedSummaries(k) ==
    IF k = 1 THEN SummaryText(call.oracle[1])
    ELSE JoinedSummaries(k - 1) \o <<32>> \o SummaryText(call.oracle[k])

\* the joined chunk summaries are longer than twice the target length
NeedsSecondPass == Len(JoinedSummaries(NumChunks)) > 2 * call.max_length

\* C22: a summarize_text call over N chunks makes at most N + 1 calls of the
\* summarization pipeline: the N chunk calls, and one more over the joined
\* chunk summaries if and only if the joined text is longer than 2 *
\* max_length; then the content is the output of that call, and otherwise it
\* is the joined chunk summaries.
C22_AtMostOneMorePass ==
    ChunkedSummarize =>
        /\ Len(trace) <= NumChunks + 1
        /\ ChunkCallsSucceeded =>
            /\ Len(trace) = NumChunks + 1 <=> NeedsSecondPass
            /\ Len(trace) = NumChunks <=> ~NeedsSecondPass
            /\ NeedsSecondPass =>
                /\ trace[NumChunks + 1] =
                       SummarizerCall(JoinedSummaries(NumChunks), call.max_length,
                                      call.min_length)
                /\ call.oracle[NumChunks + 1].ok =>
                       ret.content = FString("{}", <<SummaryText(call.oracle[NumChunks + 1])>>)
            /\ ~NeedsSecondPass =>
                   ret.content = FString("{}", <<JoinedSummaries(NumChunks)>>)

\* C22 witness: two chunk summaries of 150 characters join to 301 characters,
\* over twice the target of 150, and the content is the summary of the third
\* call.
C22_Witness ==
    /\ ChunkedSummarize
    /\ NumChunks = 2
    /\ call.max_length = 150
    /\ ChunkCallsSucceeded
    /\ Len(JoinedSummaries(2)) = 301
    /\ Len(trace) = 3
    /\ call.oracle[3] = [ok |-> TRUE, len |-> 149]
    /\ ret.content = FString("{}", <<Rep(115, 149)>>)
    /\ ret.confidence = 80

\* two chunk summaries joining to exactly twice the target are returned as
\* they are
C22_NoSecondPassAtDouble ==
    /\ ChunkedSummarize
    /\ NumChunks = 2
    /\ call.max_length = 150
    /\ ChunkCallsSucceeded
    /\ Len(JoinedSummaries(2)) = 300
    /\ Len(trace) = 2
    /\ ret.content = FString("{}", <<JoinedSummaries(2)>>)

(***************************************************************************)
(* Claims about the synthetic positions of DOCX elements.                  *)
(***************************************************************************)
\* the elements of kind 'paragraph' or 'heading', in order
ParagraphElements ==
    SelectSeq(ret.elements, LAMBDA e : e.element_type \in {"paragraph", "heading"})

\* the vertical position of an element: the top of its box
Top(e) == e.bbox[2]

\* the positions of a sequence of elements strictly increase
StrictlyDown(es) == \A i, j \in DOMAIN es : i < j => Top(es[i]) < Top(es[j])

\* C23: in a DOCX result every table element lies lower than every
\* paragraph or heading element, for any number of paragraphs and tables, and
\* within the paragraphs and within the tables the positions strictly increase
\* in extraction order.
C23_TablesBelowParagraphs ==
    DocxReturned =>
        /\ \A i \in DOMAIN TableElements, j \in DOMAIN ParagraphElements :
              Top(TableElements[i]) > Top(ParagraphElements[j])
        /\ StrictlyDown(ParagraphElements)
        /\ StrictlyDown(TableElements)

\* the part of C23 within each kind
C23_IncreasingWithinKind ==
    DocxReturned => StrictlyDown(ParagraphElements) /\ StrictlyDown(TableElements)

(***************************************************************************)
(* Claims about the language reported by document-structure analysis.      *)
(***************************************************************************)
\* the tag of the script classifier as the text detect_language would give
TagText(tag) ==
    CASE tag = "ar" -> <<97, 114>>
      [] tag = "hi" -> <<104, 105>>
      [] tag = "zh" -> LangZh
      [] tag = "en" -> LangEn
      [] OTHER -> LangUnknown

\* the number of non-blank elements analysed whose primary tag is tag
NumTagged(tag) ==
    Cardinality({i \in DOMAIN call.elements :
                    /\ strip(call.elements[i].text) # <<>>
                    /\ call.elements[i].language = tag})

\* the number of elements the analysis reports in the language
NumReported(lang) ==
    IF lang \in DOMAIN ret.languages_detected THEN ret.languages_detected[lang] ELSE 0

\* C24: the regex heuristic never overrides a confident result of the script
\* classifier: every analysed element whose primary tag is 'ar', 'hi' or 'zh'
\* is reported by analyze_document_structure under that same tag.
C24_PrimaryTagReported ==
    (call.op = "analyze_document_structure" /\ ret.kind = "mapping") =>
        \A tag \in {"ar", "hi", "zh"} : NumReported(TagText(tag)) >= NumTagged(tag)

(***************************************************************************)
(* Claims about failures inside the chunked loops.                         *)
(***************************************************************************)
\* answer_question took the sliding-window path
ChunkedAnswerCall ==
    /\ call.op = "answer_question"
    /\ mgr.qa_model
    /\ Len(call.context) > 2000

\* the response of the handler of the method called
FailureResponse ==
    IF call.op = "summarize_text"
    THEN ModelResponse(FString("Error generating summary: {}", <<"str(e)">>), 0,
                       [error |-> "str(e)"])
    ELSE ModelResponse(FString("Error answering question: {}", <<"str(e)">>), 0,
                       [error |-> "str(e)", question |-> call.question])

\* C25: a chunked summarize_text or answer_question call is all-or-nothing:
\* when the pipeline fails on a chunk or window after the loop has started,
\* the call returns the failure response, with confidence 0.0 and a content
\* holding the message of the exception alone, none of the outputs of the
\* chunks already processed; a response that is not a failure was built after
\* every chunk or window had been processed.
C25_AllOrNothing ==
    (ChunkedSummarize \/ ChunkedAnswerCall) =>
        /\ PrimitiveFailed =>
            /\ ret = FailureResponse
            /\ ret.confidence = 0
            /\ ret.content.args = <<"str(e)">>
        /\ ret # FailureResponse =>
            /\ \A i \in DOMAIN call.oracle : call.oracle[i].ok
            /\ Len(trace) >= (IF call.op = "summarize_text" THEN NumChunks ELSE NumWindows)

\* C25 witness: the QA pipeline scored 90 on the first window of a context
\* of 2001 characters and failed on the second; the failure response came
\* back.
C25_Witness ==
    /\ ChunkedAnswerCall
    /\ Len(call.context) = 2001
    /\ call.oracle = <<[ok |-> TRUE, score |-> 90], [ok |-> FALSE]>>
    /\ Len(trace) = 2
    /\ ret = FailureResponse

(***************************************************************************)
(* Claims about the key phrases.                                           *)
(***************************************************************************)
\* extract_key_phrases ran the vectorizer on a text of two sentences or more
PhrasesRanked ==
    /\ call.op = "extract_key_phrases"
    /\ NumSentences(call.text) >= 2
    /\ ret.kind = "sequence"

\* the mean score of a term
MeanScore(term) == call.oracle[1].mean_scores[term[2] - 48 + 1]

\* the terms the vectorizer found
Terms == {feature_name(i - 1) : i \in DOMAIN call.oracle[1].mean_scores}

\* the phrases returned, as a set
Returned == {ret.items[j] : j \in DOMAIN ret.items}

\* the phrases are terms of positive mean score, without repetition, in
\* non-increasing order of mean score, and no term left out scores higher
\* than one returned
RankedByMeanScore ==
    /\ Returned \subseteq Terms
    /\ Cardinality(Returned) = Len(ret.items)
    /\ \A t \in Returned : MeanScore(t) > 0
    /\ \A i, j \in DOMAIN ret.items :
          i < j => MeanScore(ret.items[i]) >= MeanScore(ret.items[j])
    /\ \A t \in Returned, o \in Terms \ Returned : MeanScore(o) <= MeanScore(t)

\* C26: for a text of at least two sentences, extract_key_phrases(text,
\* top_k) returns at most top_k phrases for every top_k >= 0, all of positive
\* mean score, in non-increasing order of mean score, no omitted term scoring
\* higher than a returned one; on an internal failure it returns the empty
\* sequence.
C26_AtMostTopK ==
    PhrasesRanked =>
        IF call.oracle[1].ok
        THEN Len(ret.items) <= call.top_k /\ RankedByMeanScore
        ELSE ret.items = <<>>

\* the part of C26 that holds: the same with at most top_k phrases only for
\* top_k >= 1
C26_AtMostTopKFromOne ==
    PhrasesRanked =>
        IF call.oracle[1].ok
        THEN (call.top_k >= 1 => Len(ret.items) <= call.top_k) /\ RankedByMeanScore
        ELSE ret.items = <<>>

\* with top_k = 0 every term of positive score is returned
C26_AllAtZero ==
    (PhrasesRanked /\ call.top_k = 0 /\ call.oracle[1].ok) =>
        Returned = {t \in Terms : MeanScore(t) > 0}

(***************************************************************************)
(* Claims about the script classifier and texts without Latin letters.     *)
(***************************************************************************)
\* an ASCII letter
AsciiLetter(c) == (65 <= c /\ c <= 90) \/ (97 <= c /\ c <= 122)

\* an Arabic, Devanagari or CJK character of the counted ranges
OtherScript(c) ==
    \/ 1536 <= c /\ c <= 1791
    \/ 2304 <= c /\ c <= 2431
    \/ 19968 <= c /\ c <= 40959

\* the classifier has run on the text of the call
Classified == call.op = "_detect_language" /\ ret.kind = "value"

\* the text has counted characters, all Arabic, Devanagari or CJK
OnlyOtherScripts(t) ==
    /\ \E i \in DOMAIN t : OtherScript(t[i])
    /\ \A i \in DOMAIN t : ~AsciiLetter(t[i])

\* C27: the script classifier returns 'en' only for a text with at least one
\* ASCII letter: every text whose counted characters are all Arabic,
\* Devanagari or CJK, in any mixture, is classified 'ar', 'hi' or 'zh'.
C27_EnglishNeedsAsciiLetter ==
    Classified =>
        /\ ret.value = "en" => \E i \in DOMAIN call.text : AsciiLetter(call.text[i])
        /\ OnlyOtherScripts(call.text) => ret.value \in {"ar", "hi", "zh"}

\* C27 witness: three Arabic, three Devanagari and three CJK characters, a
\* third each, were classified 'ar'.
C27_Witness ==
    /\ Classified
    /\ call.text = Rep(1593, 3) \o Rep(2325, 3) \o Rep(20013, 3)
    /\ OnlyOtherScripts(call.text)
    /\ ret.value = "ar"

(***************************************************************************)
(* Claims about page numbers.                                              *)
(***************************************************************************)
\* the page numbers of the elements, in order
PageNumbers == [i \in DOMAIN ret.elements |-> ret.elements[i].page_number]

\* the number of pages of the file: the pages of a PDF, the slides of a
\* PPTX, one for a DOCX and for an image
PagesOfFile ==
    CASE call.file.body.fmt = "pdf" -> Len(call.file.body.pages)
      [] call.file.body.fmt = "pptx" -> Len(call.file.body.slides)
      [] OTHER -> 1

\* C28: in every document process_document returns, every element's
\* page_number lies in 1..total_pages and the page numbers do not decrease
\* along the elements; total_pages is the number of pages of a PDF, the
\* number of slides of a PPTX, and 1 for a DOCX and for an image.
C28_PageNumbersInRange ==
    DocumentReturned =>
        /\ ret.total_pages = PagesOfFile
        /\ \A i \in DOMAIN PageNumbers :
              1 <= PageNumbers[i] /\ PageNumbers[i] <= ret.total_pages
        /\ \A i, j \in DOMAIN PageNumbers : i < j => PageNumbers[i] <= PageNumbers[j]

\* C28 witness: a PPTX of two slides, the first empty and the second with one
\* shape 'a', gave one element, on page 2 of 2.
C28_Witness ==
    /\ DocumentReturned
    /\ ret.metadata.file_type = "pptx"
    /\ Len(call.file.body.slides) = 2
    /\ call.file.body.slides[1] = <<>>
    /\ ret.total_pages = 2
    /\ PageNumbers = <<2>>

(***************************************************************************)
(* Claims about the windows of answer_question.                            *)
(***************************************************************************)
\* the offset of the window of the k-th pipeline call
Offset(k) == 1000 * (k - 1)

\* the characters a..b of the context (1-based, inclusive) all lie in the
\* window of the k-th pipeline call
InWindow(a, b, k) ==
    /\ k \in DOMAIN trace
    /\ Offset(k) < a
    /\ b <= Offset(k) + Len(trace[k].context)

\* the span of at most n characters from character a of the context on lies
\* in the window that starts in the stride of a
SpanSeen(a, n) == InWindow(a, Min(a + n - 1, Len(call.context)), ((a - 1) \div 1000) + 1)

\* the starts of the spans looked at: the first and the last character of
\* every hundred characters of the context, so the characters on both sides of
\* every stride boundary, and the last character
SpanStarts ==
    {a \in {100 * j + d : j \in 0..(Len(call.context) \div 100), d \in {0, 1}} :
        1 <= a /\ a <= Len(call.context)} \cup {Len(call.context)}

\* C29: for a context longer than 2000 characters the QA windows start at
\* the offsets 0, 1000, 2000, ... below the length of the context and span at
\* most 2000 characters each; every character of the context lies in a
\* window and every span of at most 1000 characters lies whole inside one
\* window (a shorter span lies inside the span of 1000 characters with the
\* same start); the spans are taken from the starts SpanStarts.
C29_WindowsOverlapByHalf ==
    ChunkedAnswered =>
        /\ \A k \in DOMAIN trace :
              /\ Offset(k) < Len(call.context)
              /\ Len(trace[k].context) <= 2000
              /\ trace[k].context = Window(k)
              /\ trace[k].context[1] = call.context[Offset(k) + 1]
        /\ Offset(Len(trace) + 1) >= Len(call.context)
        /\ \A a \in SpanStarts : \A n \in {1, 2, 999, 1000} : SpanSeen(a, n)

\* C29 witness: a context of 2001 characters was read in three windows, of
\* 2000, 1001 and 1 characters, and the span of the characters 1002 to 2001,
\* across the end of the first window, lies inside the second.
C29_Witness ==
    /\ ChunkedAnswered
    /\ Len(call.context) = 2001
    /\ [k \in DOMAIN trace |-> Len(trace[k].context)] = <<2000, 1001, 1>>
    /\ ~InWindow(1002, 2001, 1)
    /\ InWindow(1002, 2001, 2)

(***************************************************************************)
(* Claims about the lengths given to the chunk calls.                      *)
(***************************************************************************)
\* the pipeline calls made on chunks
ChunkCalls == 1..Min(NumChunks, Len(trace))

\* C30: in the chunked path of summarize_text, for a caller with 1 <=
\* min_length <= max_length and any input length, every call of the pipeline
\* on a chunk receives a max_length of at least 1 and a min_length not
\* greater than that max_length.
C30_ChunkLengthsUsable ==
    (ChunkedSummarize /\ 1 <= call.min_length /\ call.min_length <= call.max_length) =>
        \A k \in ChunkCalls :
            /\ trace[k].max_length >= 1
            /\ trace[k].min_length <= trace[k].max_length

\* the part of C30 that holds: min_length never exceeds max_length
C30_MinWithinMax ==
    (ChunkedSummarize /\ 1 <= call.min_length /\ call.min_length <= call.max_length) =>
        \A k \in ChunkCalls : trace[k].min_length <= trace[k].max_length

=============================================================================
